---------------------------- MODULE Spec2Model ----------------------------
(***************************************************************************)
(* A model of go-ratox: the FIFO gateway and friend-state engine.          *)
(*                                                                         *)
(* The repository holds two generations of the client type:                *)
(*   - src/client/client.go: friends + friendsByID (two indices), a        *)
(*     boolean shutdown flag;                                              *)
(*   - src/unnamed/part_001 (from line 144): friends only, guarded by      *)
(*     friendsMu, a shutdown channel and a running flag.  This is the      *)
(*     generation src/client/fifo.go and src/client/handlers.go compile    *)
(*     against.                                                            *)
(* Each generation is modelled by its own specification below.             *)
(*                                                                         *)
(* A Go string is a sequence of bytes: an ASCII byte is written as its      *)
(* one-character string, a byte of a multi-byte UTF-8 character as its two *)
(* hex digits ("C3").  A byte array is a sequence of integers 0..255.      *)
(***************************************************************************)
EXTENDS Integers, Sequences, FiniteSets, TLC

(***************************************************************************)
(* Bounds of the model.                                                    *)
(***************************************************************************)
\* Friend handles are 0..MaxHandle.
MaxHandle == 1
\* At most MaxMonitors friend polling tasks are ever started.
MaxMonitors == 2
\* The returns of createFIFO are counted up to MaxReturns.
MaxReturns == 2

(***************************************************************************)
(* Program constants.                                                      *)
(***************************************************************************)
\* [32]byte public keys
KeyLen == 32

VARIABLES
    \* ---- friend registry (both generations) ----
    friends,        \* c.friends: handle -> Friend record
    friendsByID,    \* c.friendsByID: public key (hex string) -> handle (client.go only)
    tox,            \* the engine: [friends: handle -> [PublicKey, Name]]
    \* ---- lifecycle (part_001 Client.Run / Client.Shutdown, fifo.go FIFOManager.Run) ----
    pc,             \* position of each goroutine and of each Shutdown caller
    mon,            \* position of each friend polling task (monitorFriendFIFOs)
    mu,             \* holder of c.mu, or "free"
    running,        \* c.running
    shutdownClosed, \* c.shutdown has been closed
    ctxDone,        \* c.ctx has been cancelled
    fmCtxDone,      \* fm.ctx (the FIFO manager's own context) has been cancelled
    wg,             \* counter of c.wg
    fmwg,           \* counter of fm.wg
    toxKilled,      \* tox.Kill() has been called
    panicked,       \* the process died of a runtime panic
    effects,        \* per Shutdown caller: the effects it has performed
    \* ---- FIFO gateway (fifo.go, handlers.go, part_001) ----
    phase,          \* "init", "constructed" (New returned), "monitoring" / "failed" (FIFOManager.Run)
    fifos,          \* fm.fifos: path -> FIFO descriptor
    fs,             \* the filesystem below ConfigDir: path -> [type, mode]
    tasks,          \* friend id -> number of monitorFriendFIFOs goroutines started for it
    saveFile,       \* content of config.SaveFile: the engine state last written, or "none"
    config,         \* c.config: [Name, StatusMessage, MaxFileSize] and the saved file
    held,           \* the *Friend pointers that callers of GetFriend hold
    locks,          \* c.mu of client.go, c.friendsMu and fm.fifosMu: the writer and the
                    \* readers holding each
    now,            \* time.Now(), seconds since local midnight
    last            \* the last handler run: its input, the steps it took, its engine call, its writes

regVars == <<friends, friendsByID, tox>>
gateVars == <<phase, fifos, fs, tasks, saveFile, config, held, locks, now, last>>
lifeVars == <<pc, mon, mu, running, shutdownClosed, ctxDone, fmCtxDone, wg, fmwg,
              toxKilled, panicked, effects>>
vars == <<regVars, lifeVars, gateVars>>

\* sync.RWMutex: no writer ("free") and no readers
NoLocks ==
    [mu |-> [w |-> "free", r |-> {}], friendsMu |-> [w |-> "free", r |-> {}],
     fifosMu |-> [w |-> "free", r |-> {}]]

(***************************************************************************)
(* Text and encoding helpers (Go's strings, encoding/hex, fmt).            *)
(***************************************************************************)
Handles == 0..MaxHandle

LowerHex == <<"0","1","2","3","4","5","6","7","8","9","a","b","c","d","e","f">>
UpperHex == <<"0","1","2","3","4","5","6","7","8","9","A","B","C","D","E","F">>

\* encoding/hex fromHexChar as a table: the value of each hex digit
HexValue ==
    [c \in {LowerHex[i] : i \in 1..16} \cup {UpperHex[i] : i \in 1..16} |->
        IF \E i \in 1..16 : LowerHex[i] = c
        THEN (CHOOSE i \in 1..16 : LowerHex[i] = c) - 1
        ELSE (CHOOSE i \in 1..16 : UpperHex[i] = c) - 1]

\* encoding/hex fromHexChar: the value of a hex digit, -1 when it is none
fromHexChar(c) == IF c \in DOMAIN HexValue THEN HexValue[c] ELSE -1

\* hex.DecodeString succeeds: even length, every character a hex digit
DecodeOK(s) ==
    /\ Len(s) % 2 = 0
    /\ \A i \in 1..Len(s) : fromHexChar(s[i]) >= 0

\* hex.DecodeString: the decoded bytes (of a string DecodeOK accepts)
DecodeString(s) ==
    <<>> \o [i \in 1..(Len(s) \div 2) |-> 16 * fromHexChar(s[2*i - 1]) + fromHexChar(s[2*i])]

\* hex.EncodeToString: two lower-case digits per byte
EncodeToString(b) ==
    <<>> \o [i \in 1..(2 * Len(b)) |->
        IF i % 2 = 1 THEN LowerHex[(b[(i + 1) \div 2] \div 16) + 1]
                     ELSE LowerHex[(b[i \div 2] % 16) + 1]]

\* fmt.Sprintf("%X", b): two upper-case digits per byte
SprintfX(b) ==
    <<>> \o [i \in 1..(2 * Len(b)) |->
        IF i % 2 = 1 THEN UpperHex[(b[(i + 1) \div 2] \div 16) + 1]
                     ELSE UpperHex[(b[i \div 2] % 16) + 1]]

\* The public keys of the model: 32 bytes alternating a, b.
KeyOf(a, b) == <<>> \o [i \in 1..KeyLen |-> IF i % 2 = 1 THEN a ELSE b]
ZeroKey == <<>> \o [i \in 1..KeyLen |-> 0]
PublicKeys == {KeyOf(171, 205), KeyOf(18, 52)}

Names == {<<"B","o","b">>, <<"A","l">>}

(***************************************************************************)
(* The engine's friend table (toxcore).  Handles are unique by             *)
(* construction; the engine keeps one friend per public key.               *)
(***************************************************************************)
ToxFriendTables ==
    {t \in UNION {[D -> [PublicKey : PublicKeys, Name : Names]] : D \in SUBSET Handles} :
        \A h1, h2 \in DOMAIN t : t[h1].PublicKey = t[h2].PublicKey => h1 = h2}

(***************************************************************************)
(* Friend registry of src/client/client.go: two indices.                   *)
(***************************************************************************)
\* Friend struct (client.go): Number, PublicKey (hex string), Name
KeyStrings == {SprintfX(k) : k \in PublicKeys}
FriendValues == [PublicKey : KeyStrings, Name : Names, Number : Handles]

\* Client.AddFriend(friend)
AddFriend(friend) ==
    /\ friends' = (friend.Number :> friend) @@ friends
    /\ friendsByID' = (friend.PublicKey :> friend.Number) @@ friendsByID
    /\ UNCHANGED <<tox, lifeVars, gateVars>>

\* Client.RemoveFriend(friendNum)
RemoveFriend(friendNum) ==
    /\ IF friendNum \in DOMAIN friends
       THEN /\ friendsByID' = [k \in DOMAIN friendsByID \ {friends[friendNum].PublicKey}
                                  |-> friendsByID[k]]
            /\ friends' = [h \in DOMAIN friends \ {friendNum} |-> friends[h]]
       ELSE UNCHANGED <<friends, friendsByID>>
    /\ UNCHANGED <<tox, lifeVars, gateVars>>

\* One iteration of the loop of Client.loadFriends over friend number n.
RECURSIVE LoadFrom(_, _, _)
LoadFrom(todo, fr, byID) ==
    IF todo = {} THEN <<fr, byID>>
    ELSE LET n == CHOOSE x \in todo : \A y \in todo : x <= y
             friend == [PublicKey |-> SprintfX(tox.friends[n].PublicKey),
                        Name |-> tox.friends[n].Name, Number |-> n]
         IN LoadFrom(todo \ {n}, (n :> friend) @@ fr, (friend.PublicKey :> n) @@ byID)

\* Client.loadFriends: every friend of the engine's list, in list order
LoadFriends ==
    /\ LET r == LoadFrom(DOMAIN tox.friends, friends, friendsByID)
       IN /\ friends' = r[1]
          /\ friendsByID' = r[2]
    /\ UNCHANGED <<tox, lifeVars, gateVars>>

\* The lifecycle variables other than pc of a client whose lifecycle is not part of the
\* specification at hand.
LifeRest ==
    /\ mon = <<>>
    /\ mu = "free"
    /\ running = FALSE
    /\ shutdownClosed = FALSE
    /\ ctxDone = FALSE
    /\ fmCtxDone = FALSE
    /\ wg = 0
    /\ fmwg = 0
    /\ toxKilled = FALSE
    /\ panicked = FALSE
    /\ effects = <<>>

\* The lifecycle variables of a client that is not part of the specification at hand.
LifeIdle ==
    /\ pc = <<>>
    /\ LifeRest

\* The gateway variables of a client that is not part of the specification at hand.
GateIdle ==
    /\ phase = "init"
    /\ fifos = <<>>
    /\ fs = <<>>
    /\ tasks = <<>>
    /\ saveFile = "none"
    /\ config = "none"
    /\ held = <<>>
    /\ locks = NoLocks
    /\ now = 0
    /\ last = [op |-> "none"]

InitRegistry ==
    /\ friends = <<>>
    /\ friendsByID = <<>>
    /\ tox \in [friends : ToxFriendTables]
    /\ LifeIdle
    /\ GateIdle

NextRegistry ==
    \/ \E friend \in FriendValues : AddFriend(friend)
    \/ \E friendNum \in Handles : RemoveFriend(friendNum)
    \/ LoadFriends

SpecRegistry == InitRegistry /\ [][NextRegistry]_vars

(***************************************************************************)
(* C1: after any sequence of AddFriend, RemoveFriend and friend-load       *)
(* operations the two indices agree: every key of the key index maps to a  *)
(* handle whose record exists and carries that key, every record's key     *)
(* maps back to the record's handle, and no public key belongs to two      *)
(* records.                                                                *)
(***************************************************************************)
C1_IndicesAgree ==
    /\ \A k \in DOMAIN friendsByID :
          /\ friendsByID[k] \in DOMAIN friends
          /\ friends[friendsByID[k]].PublicKey = k
    /\ \A h \in DOMAIN friends :
          /\ friends[h].Number = h
          /\ friends[h].PublicKey \in DOMAIN friendsByID
          /\ friendsByID[friends[h].PublicKey] = h
    /\ \A h1, h2 \in DOMAIN friends :
          friends[h1].PublicKey = friends[h2].PublicKey => h1 = h2

(***************************************************************************)
(* Lifecycle of the part_001 client: Client.Run, Client.Shutdown,          *)
(* Client.autoSave, Client.bootstrap, and FIFOManager.Run with the polling *)
(* tasks it waits for.  One step per lock acquisition, channel operation,  *)
(* WaitGroup operation and loop check.                                     *)
(***************************************************************************)
Goroutines == {"run", "fifo", "bootstrap", "autosave", "global", "cleanup"}
Callers == {"sd1", "sd2"}
Monitors == 1..MaxMonitors

\* The registry variables of a specification that does not use them.
RegIdle ==
    /\ friends = <<>>
    /\ friendsByID = <<>>
    /\ tox = [friends |-> <<>>]

\* New(): loadFriends has started one polling task per persisted friend
\* (CreateFriendFIFOs: fm.wg.Add(1); go fm.monitorFriendFIFOs(fm.ctx, friendID)).
InitLife ==
    /\ RegIdle
    /\ GateIdle
    /\ pc = [p \in Goroutines \cup Callers |-> IF p \in Callers \/ p = "run" THEN "idle" ELSE "off"]
    /\ \E n \in 0..(MaxMonitors - 1) :
          /\ mon = [i \in Monitors |-> IF i <= n THEN "check" ELSE "off"]
          /\ fmwg = n
    /\ mu = "free"
    /\ running = FALSE
    /\ shutdownClosed = FALSE
    /\ ctxDone = FALSE
    /\ fmCtxDone = FALSE
    /\ wg = 0
    /\ toxKilled = FALSE
    /\ panicked = FALSE
    /\ effects = [s \in Callers |-> {}]

\* FIFOManager.CreateFriendFIFOs, lines 169-174: start one more polling task
StartMonitor ==
    /\ \E i \in Monitors : mon[i] = "off"
    /\ LET i == CHOOSE j \in Monitors : mon[j] = "off" /\ \A k \in Monitors : mon[k] = "off" => j <= k
       IN mon' = [mon EXCEPT ![i] = "check"]
    /\ fmwg' = fmwg + 1

\* main.go: go toxClient.Run()
RunCall ==
    /\ ~panicked /\ pc["run"] = "idle"
    /\ pc' = [pc EXCEPT !["run"] = "run_lock"]
    /\ UNCHANGED <<regVars, gateVars, mon, mu, running, shutdownClosed, ctxDone, fmCtxDone, wg, fmwg,
                   toxKilled, panicked, effects>>

\* Client.Run, lines 338-344: c.mu.Lock(); check and set c.running; c.mu.Unlock()
RunLock ==
    /\ ~panicked /\ pc["run"] = "run_lock" /\ mu = "free"
    /\ IF running
       THEN pc' = [pc EXCEPT !["run"] = "run_err"] /\ UNCHANGED running
       ELSE pc' = [pc EXCEPT !["run"] = "run_spawn"] /\ running' = TRUE
    /\ UNCHANGED <<regVars, gateVars, mon, mu, shutdownClosed, ctxDone, fmCtxDone, wg, fmwg,
                   toxKilled, panicked, effects>>

\* Client.Run, lines 352-371: three times c.wg.Add(1); go func()
RunSpawn ==
    /\ ~panicked /\ pc["run"] = "run_spawn"
    /\ wg' = wg + 3
    /\ pc' = [pc EXCEPT !["run"] = "run_loop", !["fifo"] = "fifo_create",
                        !["bootstrap"] = "boot", !["autosave"] = "save_loop"]
    /\ UNCHANGED <<regVars, gateVars, mon, mu, running, shutdownClosed, ctxDone, fmCtxDone, fmwg,
                   toxKilled, panicked, effects>>

\* Client.Run, lines 383-384: case <-ticker.C: c.tox.Iterate().  A name event
\* delivered by the iteration starts a polling task (handleFriendNameChange).
RunIterate(nameEvent) ==
    /\ ~panicked /\ pc["run"] = "run_loop"
    /\ IF nameEvent THEN StartMonitor ELSE UNCHANGED <<mon, fmwg>>
    /\ UNCHANGED <<regVars, gateVars, pc, mu, running, shutdownClosed, ctxDone, fmCtxDone, wg,
                   toxKilled, panicked, effects>>

\* Client.Run, lines 379-382: case <-c.ctx.Done() / case <-c.shutdown: return nil
RunExit ==
    /\ ~panicked /\ pc["run"] = "run_loop"
    /\ ctxDone \/ shutdownClosed
    /\ pc' = [pc EXCEPT !["run"] = "run_defer"]
    /\ UNCHANGED <<regVars, gateVars, mon, mu, running, shutdownClosed, ctxDone, fmCtxDone, wg, fmwg,
                   toxKilled, panicked, effects>>

\* Client.Run, lines 346-350 (deferred): c.mu.Lock(); c.running = false; c.mu.Unlock()
RunDefer ==
    /\ ~panicked /\ pc["run"] = "run_defer" /\ mu = "free"
    /\ running' = FALSE
    /\ pc' = [pc EXCEPT !["run"] = "run_done"]
    /\ UNCHANGED <<regVars, gateVars, mon, mu, shutdownClosed, ctxDone, fmCtxDone, wg, fmwg,
                   toxKilled, panicked, effects>>

\* FIFOManager.Run, lines 86-104: createGlobalFIFOs, then start the global
\* polling task and the cleanup task; on failure only the deferred fm.wg.Wait()
FifoCreate(ok) ==
    /\ ~panicked /\ pc["fifo"] = "fifo_create"
    /\ IF ok
       THEN /\ fmwg' = fmwg + 2
            /\ pc' = [pc EXCEPT !["fifo"] = "fifo_ctx", !["global"] = "g_check",
                                !["cleanup"] = "clean_loop"]
       ELSE /\ pc' = [pc EXCEPT !["fifo"] = "fifo_wg"]
            /\ UNCHANGED fmwg
    /\ UNCHANGED <<regVars, gateVars, mon, mu, running, shutdownClosed, ctxDone, fmCtxDone, wg,
                   toxKilled, panicked, effects>>

\* FIFOManager.Run, line 106: <-ctx.Done()
FifoCtx ==
    /\ ~panicked /\ pc["fifo"] = "fifo_ctx" /\ ctxDone
    /\ pc' = [pc EXCEPT !["fifo"] = "fifo_wg"]
    /\ UNCHANGED <<regVars, gateVars, mon, mu, running, shutdownClosed, ctxDone, fmCtxDone, wg, fmwg,
                   toxKilled, panicked, effects>>

\* FIFOManager.Run, line 84 (deferred): fm.wg.Wait(); then Client.Run line 355: c.wg.Done()
FifoWg ==
    /\ ~panicked /\ pc["fifo"] = "fifo_wg" /\ fmwg = 0
    /\ wg' = wg - 1
    /\ pc' = [pc EXCEPT !["fifo"] = "done"]
    /\ UNCHANGED <<regVars, gateVars, mon, mu, running, shutdownClosed, ctxDone, fmCtxDone, fmwg,
                   toxKilled, panicked, effects>>

\* Client.bootstrap (Run lines 361-364): returns after the node list
Bootstrap ==
    /\ ~panicked /\ pc["bootstrap"] = "boot"
    /\ wg' = wg - 1
    /\ pc' = [pc EXCEPT !["bootstrap"] = "done"]
    /\ UNCHANGED <<regVars, gateVars, mon, mu, running, shutdownClosed, ctxDone, fmCtxDone, fmwg,
                   toxKilled, panicked, effects>>

\* Client.autoSave, lines 413-414: case <-ticker.C: c.saveToxData()
AutoSaveTick ==
    /\ ~panicked /\ pc["autosave"] = "save_loop"
    /\ UNCHANGED vars

\* Client.autoSave, lines 409-412: case <-c.ctx.Done(): final save, return
AutoSaveExit ==
    /\ ~panicked /\ pc["autosave"] = "save_loop" /\ ctxDone
    /\ wg' = wg - 1
    /\ pc' = [pc EXCEPT !["autosave"] = "done"]
    /\ UNCHANGED <<regVars, gateVars, mon, mu, running, shutdownClosed, ctxDone, fmCtxDone, fmwg,
                   toxKilled, panicked, effects>>

\* FIFOManager.monitorGlobalFIFOs, lines 252-255: select on ctx.Done() with default
GlobalCheck ==
    /\ ~panicked /\ pc["global"] = "g_check"
    /\ IF ctxDone
       THEN pc' = [pc EXCEPT !["global"] = "done"] /\ fmwg' = fmwg - 1
       ELSE pc' = [pc EXCEPT !["global"] = "g_poll"] /\ UNCHANGED fmwg
    /\ UNCHANGED <<regVars, gateVars, mon, mu, running, shutdownClosed, ctxDone, fmCtxDone, wg,
                   toxKilled, panicked, effects>>

\* FIFOManager.monitorGlobalFIFOs, lines 256-277: read the three input pipes and sleep.
\* An accepted request_in line starts a polling task (AcceptFriendRequest).
GlobalPoll(accepted) ==
    /\ ~panicked /\ pc["global"] = "g_poll"
    /\ IF accepted THEN StartMonitor ELSE UNCHANGED <<mon, fmwg>>
    /\ pc' = [pc EXCEPT !["global"] = "g_check"]
    /\ UNCHANGED <<regVars, gateVars, mu, running, shutdownClosed, ctxDone, fmCtxDone, wg,
                   toxKilled, panicked, effects>>

\* FIFOManager.periodicCleanup, lines 605-607: case <-ticker.C: cleanupUnusedFIFOs()
CleanupTick ==
    /\ ~panicked /\ pc["cleanup"] = "clean_loop"
    /\ UNCHANGED vars

\* FIFOManager.periodicCleanup, lines 603-604: case <-ctx.Done(): return
CleanupExit ==
    /\ ~panicked /\ pc["cleanup"] = "clean_loop" /\ ctxDone
    /\ fmwg' = fmwg - 1
    /\ pc' = [pc EXCEPT !["cleanup"] = "done"]
    /\ UNCHANGED <<regVars, gateVars, mon, mu, running, shutdownClosed, ctxDone, fmCtxDone, wg,
                   toxKilled, panicked, effects>>

\* FIFOManager.monitorFriendFIFOs, lines 285-288: select on ctx.Done() with default;
\* ctx is fm.ctx (CreateFriendFIFOs line 173)
MonCheck(i) ==
    /\ ~panicked /\ mon[i] = "check"
    /\ IF fmCtxDone
       THEN mon' = [mon EXCEPT ![i] = "done"] /\ fmwg' = fmwg - 1
       ELSE mon' = [mon EXCEPT ![i] = "poll"] /\ UNCHANGED fmwg
    /\ UNCHANGED <<regVars, gateVars, pc, mu, running, shutdownClosed, ctxDone, fmCtxDone, wg,
                   toxKilled, panicked, effects>>

\* FIFOManager.monitorFriendFIFOs, lines 289-305: read text_in and file_in, sleep
MonPoll(i) ==
    /\ ~panicked /\ mon[i] = "poll"
    /\ mon' = [mon EXCEPT ![i] = "check"]
    /\ UNCHANGED <<regVars, gateVars, pc, mu, running, shutdownClosed, ctxDone, fmCtxDone, wg, fmwg,
                   toxKilled, panicked, effects>>

\* main.go line 188 (or any other caller): toxClient.Shutdown()
ShutdownCall(s) ==
    /\ ~panicked /\ pc[s] = "idle"
    /\ pc' = [pc EXCEPT ![s] = "sd_lock"]
    /\ UNCHANGED <<regVars, gateVars, mon, mu, running, shutdownClosed, ctxDone, fmCtxDone, wg, fmwg,
                   toxKilled, panicked, effects>>

\* Client.Shutdown, lines 431-436: c.mu.Lock(); defer c.mu.Unlock(); if !c.running return
SdLock(s) ==
    /\ ~panicked /\ pc[s] = "sd_lock" /\ mu = "free"
    /\ IF ~running
       THEN pc' = [pc EXCEPT ![s] = "sd_ret"] /\ UNCHANGED mu
       ELSE pc' = [pc EXCEPT ![s] = "sd_close"] /\ mu' = s
    /\ UNCHANGED <<regVars, gateVars, mon, running, shutdownClosed, ctxDone, fmCtxDone, wg, fmwg,
                   toxKilled, panicked, effects>>

\* Client.Shutdown, line 443: close(c.shutdown); closing a closed channel panics
SdClose(s) ==
    /\ ~panicked /\ pc[s] = "sd_close"
    /\ IF shutdownClosed
       THEN panicked' = TRUE /\ UNCHANGED <<shutdownClosed, pc>>
       ELSE /\ shutdownClosed' = TRUE
            /\ pc' = [pc EXCEPT ![s] = "sd_cancel"]
            /\ UNCHANGED panicked
    /\ effects' = [effects EXCEPT ![s] = @ \cup {"close"}]
    /\ UNCHANGED <<regVars, gateVars, mon, mu, running, ctxDone, fmCtxDone, wg, fmwg, toxKilled>>

\* Client.Shutdown, line 446: c.cancel()
SdCancel(s) ==
    /\ ~panicked /\ pc[s] = "sd_cancel"
    /\ ctxDone' = TRUE
    /\ effects' = [effects EXCEPT ![s] = @ \cup {"cancel"}]
    /\ pc' = [pc EXCEPT ![s] = "sd_wait"]
    /\ UNCHANGED <<regVars, gateVars, mon, mu, running, shutdownClosed, fmCtxDone, wg, fmwg,
                   toxKilled, panicked>>

\* Client.Shutdown, line 449: c.wg.Wait()
SdWait(s) ==
    /\ ~panicked /\ pc[s] = "sd_wait" /\ wg = 0
    /\ pc' = [pc EXCEPT ![s] = "sd_save"]
    /\ UNCHANGED <<regVars, gateVars, mon, mu, running, shutdownClosed, ctxDone, fmCtxDone, wg, fmwg,
                   toxKilled, panicked, effects>>

\* Client.Shutdown, line 452: c.saveToxData()
SdSave(s) ==
    /\ ~panicked /\ pc[s] = "sd_save"
    /\ effects' = [effects EXCEPT ![s] = @ \cup {"flush"}]
    /\ pc' = [pc EXCEPT ![s] = "sd_kill"]
    /\ UNCHANGED <<regVars, gateVars, mon, mu, running, shutdownClosed, ctxDone, fmCtxDone, wg, fmwg,
                   toxKilled, panicked>>

\* Client.Shutdown, lines 455-457: c.tox.Kill()
SdKill(s) ==
    /\ ~panicked /\ pc[s] = "sd_kill"
    /\ toxKilled' = TRUE
    /\ effects' = [effects EXCEPT ![s] = @ \cup {"kill"}]
    /\ pc' = [pc EXCEPT ![s] = "sd_unlock"]
    /\ UNCHANGED <<regVars, gateVars, mon, mu, running, shutdownClosed, ctxDone, fmCtxDone, wg, fmwg,
                   panicked>>

\* Client.Shutdown, line 432 (deferred): c.mu.Unlock(); return
SdUnlock(s) ==
    /\ ~panicked /\ pc[s] = "sd_unlock" /\ mu = s
    /\ mu' = "free"
    /\ pc' = [pc EXCEPT ![s] = "sd_ret"]
    /\ UNCHANGED <<regVars, gateVars, mon, running, shutdownClosed, ctxDone, fmCtxDone, wg, fmwg,
                   toxKilled, panicked, effects>>

NextLife ==
    \/ RunCall
    \/ RunLock
    \/ RunSpawn
    \/ \E nameEvent \in BOOLEAN : RunIterate(nameEvent)
    \/ RunExit
    \/ RunDefer
    \/ \E ok \in BOOLEAN : FifoCreate(ok)
    \/ FifoCtx
    \/ FifoWg
    \/ Bootstrap
    \/ AutoSaveTick
    \/ AutoSaveExit
    \/ GlobalCheck
    \/ \E accepted \in BOOLEAN : GlobalPoll(accepted)
    \/ CleanupTick
    \/ CleanupExit
    \/ \E i \in Monitors : MonCheck(i)
    \/ \E i \in Monitors : MonPoll(i)
    \/ \E s \in Callers : ShutdownCall(s)
    \/ \E s \in Callers : SdLock(s)
    \/ \E s \in Callers : SdClose(s)
    \/ \E s \in Callers : SdCancel(s)
    \/ \E s \in Callers : SdWait(s)
    \/ \E s \in Callers : SdSave(s)
    \/ \E s \in Callers : SdKill(s)
    \/ \E s \in Callers : SdUnlock(s)

\* Fair scheduling: every goroutine that can take a step eventually takes one, and a
\* select with a ready stop case eventually chooses it.  The ticker cases and the
\* calls made from outside (Run, Shutdown) are not forced.
FairLife ==
    /\ WF_vars(RunLock) /\ WF_vars(RunSpawn) /\ WF_vars(RunExit) /\ WF_vars(RunDefer)
    /\ WF_vars(\E ok \in BOOLEAN : FifoCreate(ok))
    /\ WF_vars(FifoCtx) /\ WF_vars(FifoWg) /\ WF_vars(Bootstrap)
    /\ WF_vars(AutoSaveExit) /\ WF_vars(GlobalCheck)
    /\ WF_vars(\E accepted \in BOOLEAN : GlobalPoll(accepted))
    /\ WF_vars(CleanupExit)
    /\ \A i \in Monitors : WF_vars(MonCheck(i)) /\ WF_vars(MonPoll(i))
    /\ \A s \in Callers :
          /\ WF_vars(SdLock(s)) /\ WF_vars(SdClose(s)) /\ WF_vars(SdCancel(s))
          /\ WF_vars(SdWait(s)) /\ WF_vars(SdSave(s)) /\ WF_vars(SdKill(s))
          /\ WF_vars(SdUnlock(s))

SpecLife == InitLife /\ [][NextLife]_vars /\ FairLife

\* Every loop has observed the stop signal and exited.
LoopsExited ==
    /\ pc["run"] \in {"run_defer", "run_done"}
    /\ \A p \in {"fifo", "bootstrap", "autosave", "global", "cleanup"} : pc[p] \in {"off", "done"}
    /\ \A i \in Monitors : mon[i] \in {"off", "done"}

(***************************************************************************)
(* C2: under fair scheduling, once Shutdown is invoked on a running client *)
(* (the call has found c.running set), every loop exits and Shutdown       *)
(* returns, whatever the number of friend polling tasks.  Stated for a     *)
(* single Shutdown call (the other caller stays idle).                     *)
(***************************************************************************)
C2_ShutdownCompletes ==
    (pc["sd1"] = "sd_close" /\ pc["sd2"] = "idle")
        ~> ((pc["sd1"] = "sd_ret" /\ LoopsExited) \/ pc["sd2"] # "idle")

(***************************************************************************)
(* C3: Shutdown is idempotent: of any two calls only one signals the       *)
(* loops, flushes the engine state and releases the engine, the other has  *)
(* no effect, and the shutdown channel is closed at most once (a second    *)
(* close is a runtime panic).                                              *)
(***************************************************************************)
C3_ShutdownIdempotent ==
    /\ ~panicked
    /\ \A s, t \in Callers : (effects[s] # {} /\ effects[t] # {}) => s = t


(***************************************************************************)
(* The FIFO gateway: src/client/fifo.go and src/client/handlers.go over    *)
(* the client of src/unnamed/part_001.  A handler is an operator from the  *)
(* world it runs in (a record of the state it can touch, plus the record   *)
(* of what it did) to the world it leaves; an action applies one handler.  *)
(***************************************************************************)
\* unicode.IsSpace, for the ASCII bytes of the model
Space == {" ", "\t", "\n", "\r"}

\* strings.TrimSpace
TrimSpace(s) ==
    IF \A i \in 1..Len(s) : s[i] \in Space THEN <<>>
    ELSE LET first == CHOOSE i \in 1..Len(s) :
                          s[i] \notin Space /\ \A j \in 1..(i - 1) : s[j] \in Space
             final == CHOOSE i \in 1..Len(s) :
                          s[i] \notin Space /\ \A j \in (i + 1)..Len(s) : s[j] \in Space
         IN SubSeq(s, first, final)

\* strings.HasPrefix, strings.TrimPrefix
HasPrefix(s, prefix) == Len(s) >= Len(prefix) /\ SubSeq(s, 1, Len(prefix)) = prefix
TrimPrefix(s, prefix) == IF HasPrefix(s, prefix) THEN SubSeq(s, Len(prefix) + 1, Len(s)) ELSE s

\* The bytes 10xxxxxx of the model: the second byte of a two-byte character.
ContinuationBytes == {"A9"}
\* U+00E9 in UTF-8
EAcute == <<"C3", "A9">>
\* utf8.RuneCountInString: the number of characters (code points) of a string
RuneCount(s) == Cardinality({i \in 1..Len(s) : s[i] \notin ContinuationBytes})

\* n copies of the string c
Repeat(c, n) == <<>> \o [i \in 1..(n * Len(c)) |-> c[((i - 1) % Len(c)) + 1]]

\* FIFO names (fifo.go constants)
RequestIn == <<"r","e","q","u","e","s","t","_","i","n">>
RequestOut == <<"r","e","q","u","e","s","t","_","o","u","t">>
Name == <<"n","a","m","e">>
StatusMessage == <<"s","t","a","t","u","s","_","m","e","s","s","a","g","e">>
ID == <<"i","d">>
TextIn == <<"t","e","x","t","_","i","n">>
TextOut == <<"t","e","x","t","_","o","u","t">>
FileIn == <<"f","i","l","e","_","i","n">>
FileOut == <<"f","i","l","e","_","o","u","t">>
Status == <<"s","t","a","t","u","s">>
\* 0600, 0600, 0700; 0600 default of createFIFO; 0644 of createIDFile
FIFOPermInput == 384
FIFOPermOutput == 384
DirPerm == 448
DefaultPerm == 384
IDFilePerm == 420

\* config.ConfigDir, and filepath.Join of clean relative elements
ConfigDir == <<"/","c","f","g">>
Join(dir, elem) == dir \o <<"/">> \o elem
FriendDir(friendID) == Join(ConfigDir, friendID)
GlobalFIFOPath(name) == Join(Join(ConfigDir, <<"c","l","i","e","n","t">>), name)
FriendFIFOPath(friendID, fifoName) == Join(FriendDir(friendID), fifoName)

\* the permission bits perm without the bits of the file mode creation mask: what
\* mkdir(2), mkfifo(2) and open(2) give a new object
RECURSIVE ClearBits(_, _, _)
ClearBits(perm, umask, bit) ==
    IF bit = 0 THEN 0
    ELSE 2 * ClearBits(perm \div 2, umask \div 2, bit - 1)
             + (IF umask % 2 = 1 THEN 0 ELSE perm % 2)
ModeUnder(perm, umask) == ClearBits(perm, umask, 9)

\* The system call of a pipe creation that fails: call "none" when every call succeeds,
\* "mkdir" for MkdirAll, otherwise the call that fails for the at-th pipe of the list.
Faults(n) ==
    {[at |-> 0, call |-> "none"], [at |-> 0, call |-> "mkdir"]}
        \cup [at : 1..n, call : {"remove", "mkfifo", "chmod"}]
NoFault == [at |-> 0, call |-> "none"]

\* FIFOManager.createFIFO; fault is the failing system call, "none" when all succeed
createFIFO(w, path, isInput, isOutput, fault) ==
    LET unregistered == [p \in DOMAIN w.fifos \ {path} |-> w.fifos[p]]
        perm == IF isInput THEN FIFOPermInput
                ELSE IF isOutput THEN FIFOPermOutput ELSE DefaultPerm
        w1 == [w EXCEPT !.fifos = unregistered, !.steps = Append(@, "createFIFO")]
    IN IF fault = "remove" /\ path \in DOMAIN w.fs
       THEN [w1 EXCEPT !.err = TRUE]
       ELSE LET removed == [p \in DOMAIN w.fs \ {path} |-> w.fs[p]]
            IN IF fault = "mkfifo"
               THEN [w1 EXCEPT !.fs = removed, !.err = TRUE]
               ELSE LET made == (path :> [type |-> "fifo", mode |-> perm]) @@ removed
                        masked == (path :> [type |-> "fifo",
                                            mode |-> ModeUnder(perm, w.umask)]) @@ removed
                    IN IF fault = "chmod"
                       THEN [w1 EXCEPT !.fs = masked, !.err = TRUE]
                       ELSE [w1 EXCEPT !.fs = made,
                                       !.fifos = (path :> [Path |-> path, Mode |-> perm,
                                                           IsInput |-> isInput,
                                                           IsOutput |-> isOutput,
                                                           File |-> "nil",
                                                           LastUsed |-> now]) @@ unregistered]

\* the loop over the pipe list in createGlobalFIFOs / CreateFriendFIFOs: stops at the first error
RECURSIVE createEach(_, _, _, _)
createEach(w, list, i, fault) ==
    IF i > Len(list) \/ w.err THEN w
    ELSE createEach(createFIFO(w, list[i].path, list[i].isInput, list[i].isOutput,
                               IF fault.at = i THEN fault.call ELSE "none"),
                    list, i + 1, fault)

friendFIFOs ==
    << [name |-> TextIn,  isInput |-> TRUE,  isOutput |-> FALSE],
       [name |-> TextOut, isInput |-> FALSE, isOutput |-> TRUE],
       [name |-> FileIn,  isInput |-> TRUE,  isOutput |-> FALSE],
       [name |-> FileOut, isInput |-> FALSE, isOutput |-> TRUE],
       [name |-> Status,  isInput |-> FALSE, isOutput |-> TRUE] >>

globalFIFOs ==
    << [name |-> RequestIn,     isInput |-> TRUE,  isOutput |-> FALSE],
       [name |-> RequestOut,    isInput |-> FALSE, isOutput |-> TRUE],
       [name |-> Name,          isInput |-> TRUE,  isOutput |-> FALSE],
       [name |-> StatusMessage, isInput |-> TRUE,  isOutput |-> FALSE] >>

\* FIFOManager.CreateFriendFIFOs(friendID); w.err tells whether it returned an error
CreateFriendFIFOs(w, friendID, fault) ==
    LET w1 == [w EXCEPT !.steps = Append(@, "MkdirAll"), !.err = FALSE]
        list == [i \in 1..Len(friendFIFOs) |->
                    [path |-> FriendFIFOPath(friendID, friendFIFOs[i].name),
                     isInput |-> friendFIFOs[i].isInput,
                     isOutput |-> friendFIFOs[i].isOutput]]
    IN IF fault.call = "mkdir" THEN [w1 EXCEPT !.err = TRUE]
       ELSE LET w2 == [w1 EXCEPT !.fs = @ @@ (FriendDir(friendID) :>
                                                 [type |-> "dir",
                                                  mode |-> ModeUnder(DirPerm, w.umask)])]
                w3 == createEach(w2, list, 1, fault)
            IN IF w3.err THEN w3
               ELSE [w3 EXCEPT !.tasks = (friendID :>
                                            (IF friendID \in DOMAIN @ THEN @[friendID] ELSE 0) + 1)
                                         @@ @,
                               !.steps = Append(@, "monitorFriendFIFOs")]

\* Client.saveToxData: the engine state written to config.SaveFile (a failed write is logged)
saveToxData(w, saveOK) ==
    [w EXCEPT !.saveFile = IF saveOK THEN w.tox.friends ELSE @,
              !.steps = Append(@, "saveToxData")]

\* copy(publicKey[:], b) into a zeroed [32]byte
Copy32(b) == <<>> \o [i \in 1..KeyLen |-> IF i <= Len(b) THEN b[i] ELSE 0]

\* the name a friend carries until its first name event
Unknown == <<"U","n","k","n","o","w","n">>

\* toxcore AddFriendByPublicKey can succeed: the key is no friend yet and a handle is free
CanAddFriend(t, publicKey) ==
    /\ \A h \in DOMAIN t.friends : t.friends[h].PublicKey # publicKey
    /\ Handles \ DOMAIN t.friends # {}
\* the handle the engine gives the next friend
FreeHandle(t) ==
    CHOOSE h \in Handles \ DOMAIN t.friends : \A g \in Handles \ DOMAIN t.friends : h <= g

NoCall == [fn |-> "none"]
NoEvent == [friendID |-> 0, kind |-> "none"]

\* The world a handler starts in: the state it can touch and an empty record of its run.
\* The file mode creation mask of the process is 022 unless an action says otherwise.
World ==
    [friends |-> friends, tox |-> tox, fifos |-> fifos, fs |-> fs, tasks |-> tasks,
     saveFile |-> saveFile, config |-> config, umask |-> 18, call |-> NoCall, steps |-> <<>>,
     err |-> FALSE, writes |-> <<>>, created |-> FALSE, event |-> NoEvent, log |-> <<>>,
     handled |-> <<>>]

\* log.Printf of a handler: the log entry is the kind of the message
Log(w, entry) == [w EXCEPT !.log = Append(@, entry)]

\* The state a handler leaves.
Leave(w) ==
    /\ friends' = w.friends
    /\ tox' = w.tox
    /\ fifos' = w.fifos
    /\ fs' = w.fs
    /\ tasks' = w.tasks
    /\ saveFile' = w.saveFile
    /\ config' = w.config
    /\ held' = held
    /\ locks' = locks

\* The state a handler leaves, and the record of its run.
Commit(w, op, line) ==
    /\ Leave(w)
    /\ last' = [op |-> op, call |-> w.call, steps |-> w.steps, writes |-> w.writes,
                created |-> w.created, event |-> w.event, log |-> w.log, handled |-> w.handled,
                line |-> line]

\* AcceptFriendRequest creating the pipes before it registers the friend: the variant C6
\* must tell from the code.
AcceptFriendRequest_PipesFirst(w, publicKey, engineOK, fault, saveOK) ==
    IF ~(engineOK /\ CanAddFriend(w.tox, publicKey))
    THEN [w EXCEPT !.call = [ok |-> FALSE, fn |-> "AddFriendByPublicKey", key |-> publicKey,
                             handle |-> 0],
                   !.steps = Append(@, "AddFriendByPublicKey"),
                   !.err = TRUE]
    ELSE LET friendID == FreeHandle(w.tox)
             w1 == [w EXCEPT !.tox.friends = (friendID :> [PublicKey |-> publicKey,
                                                           Name |-> <<>>]) @@ @,
                             !.call = [ok |-> TRUE, fn |-> "AddFriendByPublicKey",
                                       key |-> publicKey, handle |-> friendID],
                             !.steps = Append(@, "AddFriendByPublicKey")]
             friend == [PublicKey |-> publicKey, Name |-> Unknown, ID |-> friendID,
                        Status |-> 0, Online |-> FALSE, LastSeen |-> now]
             w2 == CreateFriendFIFOs(w1, EncodeToString(publicKey), fault)
             w3 == [w2 EXCEPT !.friends = (friendID :> friend) @@ @,
                              !.steps = Append(@, "register")]
         IN [saveToxData(w3, saveOK) EXCEPT !.created = ~w2.err, !.err = FALSE]

\* Client.AcceptFriendRequest(publicKey); engineOK: the engine call does not fail
AcceptFriendRequest(w, publicKey, engineOK, fault, saveOK) ==
    IF ~(engineOK /\ CanAddFriend(w.tox, publicKey))
    THEN [w EXCEPT !.call = [ok |-> FALSE, fn |-> "AddFriendByPublicKey", key |-> publicKey,
                             handle |-> 0],
                   !.steps = Append(@, "AddFriendByPublicKey"),
                   !.err = TRUE]
    ELSE LET friendID == FreeHandle(w.tox)
             w1 == [w EXCEPT !.tox.friends = (friendID :> [PublicKey |-> publicKey,
                                                           Name |-> <<>>]) @@ @,
                             !.call = [ok |-> TRUE, fn |-> "AddFriendByPublicKey",
                                       key |-> publicKey, handle |-> friendID],
                             !.steps = Append(@, "AddFriendByPublicKey")]
             friend == [PublicKey |-> publicKey, Name |-> Unknown, ID |-> friendID,
                        Status |-> 0, Online |-> FALSE, LastSeen |-> now]
             w2 == [w1 EXCEPT !.friends = (friendID :> friend) @@ @,
                              !.steps = Append(@, "register")]
             w3 == CreateFriendFIFOs(w2, EncodeToString(friend.PublicKey), fault)
         IN [saveToxData(w3, saveOK) EXCEPT !.created = ~w3.err, !.err = FALSE]

\* handleRequestIn without its length check (any line of 64 bytes or more is decoded):
\* the variant C4 must tell from the code.
handleRequestIn_AnyLength(w, toxID, engineOK, fault, saveOK) ==
    LET t == TrimSpace(toxID)
    IN IF Len(t) < 64 THEN w
       ELSE IF ~DecodeOK(SubSeq(t, 1, 64)) THEN w
       ELSE AcceptFriendRequest(w, Copy32(DecodeString(SubSeq(t, 1, 64))),
                                engineOK, fault, saveOK)

\* handleRequestIn ignoring the error of hex.DecodeString (no byte is decoded on an
\* error): the variant C5 must tell from the code.
handleRequestIn_NoHexCheck(w, toxID, engineOK, fault, saveOK) ==
    LET t == TrimSpace(toxID)
        publicKeyHex == IF Len(t) = 64 THEN t ELSE SubSeq(t, 1, 64)
    IN IF Len(t) # 64 /\ Len(t) # 76 THEN w
       ELSE AcceptFriendRequest(w, Copy32(IF DecodeOK(publicKeyHex)
                                          THEN DecodeString(publicKeyHex) ELSE <<>>),
                                engineOK, fault, saveOK)

\* FIFOManager.handleRequestIn(toxID)
handleRequestIn(w, toxID, engineOK, fault, saveOK) ==
    LET t == TrimSpace(toxID)
        publicKeyHex == IF Len(t) = 64 THEN t ELSE SubSeq(t, 1, 64)
    IN IF Len(t) # 64 /\ Len(t) # 76 THEN Log(w, "invalid tox id")
       ELSE IF ~DecodeOK(publicKeyHex) THEN Log(w, "invalid public key")
       ELSE LET w1 == AcceptFriendRequest(w, Copy32(DecodeString(publicKeyHex)),
                                          engineOK, fault, saveOK)
            IN IF w1.err THEN Log([w1 EXCEPT !.err = FALSE], "accept failed") ELSE w1

\* loadFriends giving up at the first friend whose pipes cannot be created: the variant
\* C19 must tell from the code.
RECURSIVE loadFriends_StopOnError(_, _, _)
loadFriends_StopOnError(w, todo, faults) ==
    IF todo = <<>> THEN w
    ELSE LET friendID == Head(todo)
             toxFriend == w.tox.friends[friendID]
             friend == [PublicKey |-> toxFriend.PublicKey, Name |-> toxFriend.Name,
                        ID |-> friendID, Status |-> 0, Online |-> FALSE, LastSeen |-> now]
             w1 == [w EXCEPT !.friends = (friendID :> friend) @@ @,
                             !.steps = Append(@, "register")]
             w2 == CreateFriendFIFOs(w1, EncodeToString(friend.PublicKey), faults[friendID])
         IN IF w2.err THEN Log([w2 EXCEPT !.err = FALSE], "create failed")
            ELSE loadFriends_StopOnError(w2, Tail(todo), faults)

\* the loop of Client.loadFriends over the engine's friends, in the order todo; a
\* failure of CreateFriendFIFOs is logged and the loop goes on
RECURSIVE loadFriends(_, _, _)
loadFriends(w, todo, faults) ==
    IF todo = <<>> THEN w
    ELSE LET friendID == Head(todo)
             toxFriend == w.tox.friends[friendID]
             friend == [PublicKey |-> toxFriend.PublicKey, Name |-> toxFriend.Name,
                        ID |-> friendID, Status |-> 0, Online |-> FALSE, LastSeen |-> now]
             w1 == [w EXCEPT !.friends = (friendID :> friend) @@ @,
                             !.steps = Append(@, "register")]
             w2 == CreateFriendFIFOs(w1, EncodeToString(friend.PublicKey), faults[friendID])
         IN loadFriends(IF w2.err THEN Log([w2 EXCEPT !.err = FALSE], "create failed")
                        ELSE w2,
                        Tail(todo), faults)

\* the orders in which a Go map with key set S can be ranged over
Orders(S) == {o \in [1..Cardinality(S) -> S] : \A i, j \in DOMAIN o : o[i] = o[j] => i = j}

\* the size of the id file: the 76 hex digits of the Tox ID and a newline
IDFileSize == 77

\* FIFOManager.createGlobalFIFOs; idOK: the id file can be written
createGlobalFIFOs(w, fault, idOK) ==
    LET clientDir == Join(ConfigDir, <<"c","l","i","e","n","t">>)
        w1 == [w EXCEPT !.steps = Append(@, "MkdirAll")]
        list == [i \in 1..Len(globalFIFOs) |->
                    [path |-> GlobalFIFOPath(globalFIFOs[i].name),
                     isInput |-> globalFIFOs[i].isInput,
                     isOutput |-> globalFIFOs[i].isOutput]]
    IN IF fault.call = "mkdir" THEN [w1 EXCEPT !.err = TRUE]
       ELSE LET w2 == [w1 EXCEPT !.fs = @ @@ (clientDir :>
                                                 [type |-> "dir",
                                                  mode |-> ModeUnder(DirPerm, w.umask)])]
                w3 == createEach(w2, list, 1, fault)
            IN IF w3.err THEN w3
               ELSE IF ~idOK THEN [w3 EXCEPT !.steps = Append(@, "createIDFile"), !.err = TRUE]
               ELSE [w3 EXCEPT !.steps = Append(@, "createIDFile"),
                               !.fs = @ @@ (GlobalFIFOPath(ID) :>
                                               [type |-> "file",
                                                mode |-> ModeUnder(IDFilePerm, w.umask),
                                                size |-> IDFileSize])]

\* The clock values of the model: 01:01:01, 10:00:00, 23:59:59 (seconds since midnight).
Times == {3661, 36000, 86399}

\* config.Load: the defaults
DefaultName == <<"r","a","t","o","x","-","g","o"," ","u","s","e","r">>
DefaultStatusMessage == <<"R","u","n","n","i","n","g"," ","r","a","t","o","x","-","g","o">>
DefaultMaxFileSize == 104857600

\* The bytes of a Go string above 0x7F are written as two hex digits: the lead bytes of
\* a two-byte and of a three-byte UTF-8 sequence, continuation bytes, and a byte that
\* occurs in no UTF-8 text.
Lead2 == {"C3"}
Lead3 == {"EF"}
Continuation == {"A9", "BF", "BD"}
HighBytes == Lead2 \cup Lead3 \cup Continuation \cup {"FF"}

\* the string encoder of a variant of encoding/json that writes the bytes of a string
\* as they are: the variant C25 must tell from the code
RECURSIVE encodeString_RawBytes(_)
encodeString_RawBytes(s) ==
    IF s = <<>> THEN <<>>
    ELSE LET b == Head(s)
         IN (IF b \in {"\"", "\\"} THEN <<"\\", b>>
             ELSE IF b = "\n" THEN <<"\\", "n">>
             ELSE IF b = "\r" THEN <<"\\", "r">>
             ELSE IF b = "\t" THEN <<"\\", "t">>
             ELSE <<b>>) \o encodeString_RawBytes(Tail(s))

\* encoding/json, the text between the quotes of a string value as json.MarshalIndent
\* writes it: a quote and a backslash get a backslash, \n \r \t their short form,
\* < > & the form \u00XX, a well-formed UTF-8 sequence is copied, and every byte that
\* is not part of one is replaced by \ufffd
RECURSIVE encodeString(_)
encodeString(s) ==
    IF s = <<>> THEN <<>>
    ELSE LET b == Head(s)
             n == Len(s)
         IN IF b \in Lead2 /\ n >= 2 /\ s[2] \in Continuation
            THEN SubSeq(s, 1, 2) \o encodeString(SubSeq(s, 3, n))
            ELSE IF b \in Lead3 /\ n >= 3 /\ s[2] \in Continuation /\ s[3] \in Continuation
            THEN SubSeq(s, 1, 3) \o encodeString(SubSeq(s, 4, n))
            ELSE (IF b \in HighBytes THEN <<"\\", "u", "f", "f", "f", "d">>
                  ELSE IF b \in {"\"", "\\"} THEN <<"\\", b>>
                  ELSE IF b = "\n" THEN <<"\\", "n">>
                  ELSE IF b = "\r" THEN <<"\\", "r">>
                  ELSE IF b = "\t" THEN <<"\\", "t">>
                  ELSE IF b = "<" THEN <<"\\", "u", "0", "0", "3", "c">>
                  ELSE IF b = ">" THEN <<"\\", "u", "0", "0", "3", "e">>
                  ELSE IF b = "&" THEN <<"\\", "u", "0", "0", "2", "6">>
                  ELSE <<b>>) \o encodeString(Tail(s))

\* the UTF-8 bytes of the character \uXXXX
Rune(hex) ==
    CASE hex = <<"0", "0", "3", "c">> -> <<"<">>
      [] hex = <<"0", "0", "3", "e">> -> <<">">>
      [] hex = <<"0", "0", "2", "6">> -> <<"&">>
      [] OTHER -> <<"EF", "BF", "BD">>

\* encoding/json unquote: the Go string of the text between the quotes
RECURSIVE unquote(_)
unquote(t) ==
    IF t = <<>> THEN <<>>
    ELSE IF Head(t) # "\\" THEN <<Head(t)>> \o unquote(Tail(t))
    ELSE IF t[2] = "u" THEN Rune(SubSeq(t, 3, 6)) \o unquote(SubSeq(t, 7, Len(t)))
    ELSE <<(CASE t[2] = "n" -> "\n" [] t[2] = "r" -> "\r" [] t[2] = "t" -> "\t"
              [] OTHER -> t[2])>> \o unquote(SubSeq(t, 3, Len(t)))

\* json.MarshalIndent(c, "", "  "): the members of the object written to config.json
MarshalIndent(c) ==
    [name |-> encodeString(c.Name), debug |-> c.Debug,
     status_message |-> encodeString(c.StatusMessage), max_file_size |-> c.MaxFileSize]

\* json.Unmarshal(data, cfg): every member of the file replaces the field of cfg
Unmarshal(data, cfg) ==
    [cfg EXCEPT !.Debug = data.debug, !.Name = unquote(data.name),
                !.StatusMessage = unquote(data.status_message),
                !.MaxFileSize = data.max_file_size]

\* the defaults of config.Load
DefaultConfig ==
    [Name |-> DefaultName, StatusMessage |-> DefaultStatusMessage, Debug |-> FALSE,
     MaxFileSize |-> DefaultMaxFileSize]

\* config.Load in a directory whose config.json holds data: the file is read over the
\* defaults and the result is saved at once
LoadFile(data) ==
    LET cfg == Unmarshal(data, DefaultConfig)
    IN [Name |-> cfg.Name, StatusMessage |-> cfg.StatusMessage, Debug |-> cfg.Debug,
        MaxFileSize |-> cfg.MaxFileSize, file |-> MarshalIndent(cfg)]

\* config.Load in a directory whose config.json holds the defaults and the limit maxFileSize
Load(maxFileSize) == LoadFile(MarshalIndent([DefaultConfig EXCEPT !.MaxFileSize = maxFileSize]))

\* A client before client.New, started at one of the times T with one of the file size
\* limits M in its configuration file and the files F of the user: the save file holds
\* the engine's friends.
GateStartWith(T, M, F) ==
    /\ friends = <<>>
    /\ friendsByID = <<>>
    /\ tox \in [friends : {t \in ToxFriendTables :
                                \A h \in DOMAIN t : t[h].Name = <<"B","o","b">>}]
    /\ LifeIdle
    /\ phase = "init"
    /\ fifos = <<>>
    /\ fs = (ConfigDir :> [type |-> "dir", mode |-> DirPerm]) @@ F
    /\ tasks = <<>>
    /\ saveFile = tox.friends
    /\ config \in {Load(m) : m \in M}
    /\ held = <<>>
    /\ locks = NoLocks
    /\ now \in T
    /\ last = [op |-> "none", call |-> NoCall, steps |-> <<>>, writes |-> <<>>,
               created |-> FALSE, event |-> NoEvent, log |-> <<>>, handled |-> <<>>,
               line |-> <<>>]

GateStart(T) == GateStartWith(T, {DefaultMaxFileSize}, <<>>)

InitGate == GateStart({3661})

\* client.New: loadFriends over the engine's friends
NewClient(order, faults) ==
    /\ phase = "init"
    /\ phase' = "constructed"
    /\ Commit(loadFriends(World, order, faults), "New", <<>>)
    /\ UNCHANGED <<friendsByID, lifeVars, now>>

\* FIFOManager.Run up to the start of the polling of the global pipes
StartFIFOManager(fault, idOK) ==
    /\ phase = "constructed"
    /\ LET w == createGlobalFIFOs(World, fault, idOK)
       IN /\ phase' = IF w.err THEN "failed" ELSE "monitoring"
          /\ Commit(w, "Run", <<>>)
    /\ UNCHANGED <<friendsByID, lifeVars, now>>

\* monitorGlobalFIFOs / readFIFO: one line read from request_in
RequestInLine(raw, engineOK, fault, saveOK) ==
    /\ phase = "monitoring"
    /\ GlobalFIFOPath(RequestIn) \in DOMAIN fs
    /\ LET line == TrimSpace(raw)
       IN Commit(IF line = <<>> THEN World
                 ELSE handleRequestIn(World, line, engineOK, fault, saveOK),
                 "request_in", line)
    /\ UNCHANGED <<friendsByID, lifeVars, phase, now>>

\* The lines written to request_in.
RequestLines ==
    LET k1 == SprintfX(KeyOf(171, 205))
        keys == {EncodeToString(k) : k \in PublicKeys} \cup {k1}
    IN keys
       \cup {k \o Repeat(<<"0">>, 12) : k \in keys}
       \cup {k1 \o Repeat(<<"z">>, 12), k1 \o Repeat(EAcute, 6), k1 \o Repeat(EAcute, 12)}
       \cup {SubSeq(k1, 1, 63), k1 \o Repeat(<<"0">>, 1), k1 \o Repeat(<<"0">>, 11),
             k1 \o Repeat(<<"0">>, 13), <<"x">>, <<>>, <<" ", "\n">>}
       \cup {[k1 EXCEPT ![1] = "g"], [k1 EXCEPT ![64] = "G"],
             [(k1 \o Repeat(<<"0">>, 12)) EXCEPT ![33] = "-"]}
       \cup {SubSeq(k1, 1, 62) \o EAcute, SubSeq(k1, 1, 63) \o EAcute}
       \cup {<<" ">> \o k1 \o <<"\r", "\n">>, <<"\t">> \o SubSeq(k1, 1, 63) \o <<" ", "\n">>}

\* The outcomes of the environment of an accepted request: the engine call fails, or it
\* succeeds, the pipes are created with a fault of F and the save file is written or not (S).
Outcomes(F, S) ==
    {[fault |-> NoFault, saveOK |-> TRUE, engineOK |-> FALSE]}
        \cup [fault : F, saveOK : S, engineOK : {TRUE}]

\* Start-up: New with every friend's pipes created, then FIFOManager.Run.
StartUp ==
    \/ \E order \in Orders(DOMAIN tox.friends) :
           NewClient(order, [h \in DOMAIN tox.friends |-> NoFault])
    \/ \E fault \in {NoFault, [at |-> 0, call |-> "mkdir"], [at |-> 2, call |-> "mkfifo"]},
          idOK \in BOOLEAN : StartFIFOManager(fault, idOK)

NextRequest ==
    \/ StartUp
    \/ \E raw \in RequestLines, o \in Outcomes({NoFault}, BOOLEAN) :
           RequestInLine(raw, o.engineOK, o.fault, o.saveOK)

SpecRequest == InitGate /\ [][NextRequest]_vars

\* The first 64 bytes of t are hex digits.
HexKey(t) == Len(t) >= 64 /\ \A i \in 1..64 : fromHexChar(t[i]) >= 0
\* The 32 bytes the first 64 hex digits of t stand for.
KeyFromHex(t) == <<>> \o [i \in 1..KeyLen |-> 16 * fromHexChar(t[2 * i - 1]) + fromHexChar(t[2 * i])]

C5_RejectedLineNoEffect ==
    [][(/\ last'.op = "request_in"
        /\ ~((Len(last'.line) = 64 \/ Len(last'.line) = 76) /\ HexKey(last'.line)))
       => UNCHANGED <<friends, fifos, tasks, saveFile>>]_vars

\* A 64-byte line with a non-hex digit was handled by a client that has a friend.
C5_Witness ==
    /\ last.op = "request_in"
    /\ Len(last.line) = 64
    /\ ~HexKey(last.line)
    /\ friends # <<>>
    /\ fifos # <<>>

(***************************************************************************)
(* Acceptance of friend requests with every failure of the pipe creation.  *)
(***************************************************************************)
AcceptLines ==
    {EncodeToString(KeyOf(171, 205)),
     SprintfX(KeyOf(18, 52)) \o Repeat(<<"0">>, 12),
     Repeat(<<"0">>, 63)}

\* The failures of the creation of a new friend's pipes (no pipe file exists yet).
AcceptFaults ==
    {NoFault, [at |-> 0, call |-> "mkdir"]}
        \cup [at : 1..Len(friendFIFOs), call : {"mkfifo", "chmod"}]

NextAccept ==
    \/ StartUp
    \/ \E raw \in AcceptLines, o \in Outcomes(AcceptFaults, {TRUE}) :
           RequestInLine(raw, o.engineOK, o.fault, o.saveOK)

SpecAccept == InitGate /\ [][NextAccept]_vars

\* The steps of an acceptance whose pipe creation succeeds.
AcceptSteps ==
    <<"AddFriendByPublicKey", "register", "MkdirAll",
      "createFIFO", "createFIFO", "createFIFO", "createFIFO", "createFIFO",
      "monitorFriendFIFOs", "saveToxData">>

\* The five per-friend descriptors of friendID are in the table t.
FiveDescriptors(t, friendID) ==
    \A i \in 1..Len(friendFIFOs) :
        /\ FriendFIFOPath(friendID, friendFIFOs[i].name) \in DOMAIN t
        /\ t[FriendFIFOPath(friendID, friendFIFOs[i].name)].IsInput = friendFIFOs[i].isInput
        /\ t[FriendFIFOPath(friendID, friendFIFOs[i].name)].IsOutput = friendFIFOs[i].isOutput

MeMarker == <<"/", "m", "e", " ">>

\* SendMessage measuring the message in code points instead of bytes: the variant C7
\* must tell from the code.
SendMessage_CodePoints(w, friendID, message, messageType, sendOK) ==
    IF RuneCount(message) = 0 THEN [w EXCEPT !.err = TRUE]
    ELSE IF RuneCount(message) > 1372 THEN [w EXCEPT !.err = TRUE]
    ELSE [w EXCEPT !.call = [ok |-> sendOK, friendID |-> friendID, fn |-> "SendFriendMessage",
                             message |-> message, messageType |-> messageType],
                   !.steps = Append(@, "SendFriendMessage"),
                   !.err = ~sendOK]

\* Client.SendMessage(friendID, message, messageType); sendOK: the engine call does not fail
SendMessage(w, friendID, message, messageType, sendOK) ==
    IF Len(message) = 0 THEN [w EXCEPT !.err = TRUE]
    ELSE IF Len(message) > 1372 THEN [w EXCEPT !.err = TRUE]
    ELSE [w EXCEPT !.call = [ok |-> sendOK, friendID |-> friendID, fn |-> "SendFriendMessage",
                             message |-> message, messageType |-> messageType],
                   !.steps = Append(@, "SendFriendMessage"),
                   !.err = ~sendOK]

\* handleFriendTextIn sending an action with its marker: the variant C8 must tell from
\* the code.
handleFriendTextIn_KeepMarker(w, friendID, message, sendOK) ==
    LET m == TrimSpace(message)
        matches == {h \in DOMAIN w.friends :
                        DecodeOK(friendID)
                        /\ w.friends[h].PublicKey = Copy32(DecodeString(friendID))}
    IN IF Len(m) = 0 \/ matches = {} THEN w
       ELSE SendMessage(w, CHOOSE h \in matches : TRUE, m,
                        IF HasPrefix(m, MeMarker) THEN "action" ELSE "normal", sendOK)

\* handleFriendTextIn going on with the zero value of friendNum when no record carries
\* the key: the variant C15 must tell from the code.
handleFriendTextIn_NoFoundCheck(w, friendID, message, sendOK) ==
    LET m == TrimSpace(message)
    IN IF Len(m) = 0 THEN w
       ELSE IF ~DecodeOK(friendID) THEN Log(w, "invalid friend id")
       ELSE IF Len(DecodeString(friendID)) # 32 THEN Log(w, "invalid friend id length")
       ELSE LET publicKey == Copy32(DecodeString(friendID))
                matches == {h \in DOMAIN w.friends : w.friends[h].PublicKey = publicKey}
                friendNum == IF matches = {} THEN 0 ELSE CHOOSE h \in matches : TRUE
                w1 == IF HasPrefix(m, MeMarker)
                      THEN SendMessage(w, friendNum, TrimPrefix(m, MeMarker), "action", sendOK)
                      ELSE SendMessage(w, friendNum, m, "normal", sendOK)
            IN IF w1.err THEN Log([w1 EXCEPT !.err = FALSE], "send failed") ELSE w1

\* FIFOManager.handleFriendTextIn(friendID, message).  The loop over c.friends stops at
\* the first record with the key; the engine keeps one friend per key, so at most one
\* record matches.
handleFriendTextIn(w, friendID, message, sendOK) ==
    LET m == TrimSpace(message)
    IN IF Len(m) = 0 THEN w
       ELSE IF ~DecodeOK(friendID) THEN Log(w, "invalid friend id")
       ELSE IF Len(DecodeString(friendID)) # 32 THEN Log(w, "invalid friend id length")
       ELSE LET publicKey == Copy32(DecodeString(friendID))
                matches == {h \in DOMAIN w.friends : w.friends[h].PublicKey = publicKey}
            IN IF matches = {} THEN Log(w, "friend not found")
               ELSE LET friendNum == CHOOSE h \in matches : TRUE
                        w1 == IF HasPrefix(m, MeMarker)
                              THEN SendMessage(w, friendNum, TrimPrefix(m, MeMarker),
                                               "action", sendOK)
                              ELSE SendMessage(w, friendNum, m, "normal", sendOK)
                    IN IF w1.err THEN Log([w1 EXCEPT !.err = FALSE], "send failed") ELSE w1

\* monitorFriendFIFOs / readFIFO: one line read from the text_in pipe of friendID
TextInLine(friendID, raw, sendOK) ==
    /\ phase # "init"
    /\ friendID \in DOMAIN tasks
    /\ tasks[friendID] > 0
    /\ FriendFIFOPath(friendID, TextIn) \in DOMAIN fs
    /\ LET line == TrimSpace(raw)
       IN Commit(IF line = <<>> THEN World
                 ELSE handleFriendTextIn(World, friendID, line, sendOK),
                 "text_in", line)
    /\ UNCHANGED <<friendsByID, lifeVars, phase, now>>

\* The lines written to text_in: around the limit of 1372 bytes in one-byte and in
\* two-byte characters, with and without the action marker.
TextLines ==
    LET plain == {Repeat(<<"a">>, 1), Repeat(<<"a">>, 1372), Repeat(<<"a">>, 1373),
                  Repeat(EAcute, 686), Repeat(EAcute, 687), <<"h", "i">>}
    IN plain
       \cup {MeMarker \o t : t \in plain}
       \cup {<<"/", "m", "e">>, <<"/", "m", "e", " ", " ">>, <<"/", "m", "e", " ", " ", "x">>,
             <<"/", "m", "e", "x">>, <<"x", " ", "/", "m", "e", " ", "y">>,
             <<"/", "M", "e", " ", "x">>,
             <<>>, <<" ", "\n">>, <<" ", "h", "i", "\r", "\n">>}

NextText ==
    \/ \E order \in Orders(DOMAIN tox.friends) :
           NewClient(order, [h \in DOMAIN tox.friends |-> NoFault])
    \/ \E friendID \in DOMAIN tasks, raw \in TextLines, sendOK \in BOOLEAN :
           TextInLine(friendID, raw, sendOK)

SpecText == InitGate /\ [][NextText]_vars

\* The text to transmit of a trimmed line: the line without a leading "/me ".
TextOf(line) ==
    IF Len(line) >= 4 /\ line[1] = "/" /\ line[2] = "m" /\ line[3] = "e" /\ line[4] = " "
    THEN SubSeq(line, 5, Len(line))
    ELSE line

(***************************************************************************)
(* C7: an outbound text line is passed to the engine's send call if and    *)
(* only if the UTF-8 byte length of the text to transmit (after removal of *)
(* a leading "/me ") is between 1 and 1372; the length is counted in       *)
(* bytes, not code points (686 two-byte characters are accepted, 687 are   *)
(* rejected), and a rejected message causes no engine call.                *)
(***************************************************************************)
C7_SendIffByteLength ==
    last.op = "text_in" =>
        /\ (last.call.fn = "SendFriendMessage")
               <=> (1 <= Len(TextOf(last.line)) /\ Len(TextOf(last.line)) <= 1372)
        /\ last.call.fn \in {"SendFriendMessage", "none"}
        /\ (RuneCount(TextOf(last.line)) = 687 /\ Len(TextOf(last.line)) = 2 * 687)
               => last.call.fn = "none"

\* 686 two-byte characters (1372 bytes) were passed to the engine.
C7_Witness ==
    /\ last.op = "text_in"
    /\ last.call.fn = "SendFriendMessage"
    /\ RuneCount(last.call.message) = 686
    /\ Len(last.call.message) = 1372

(***************************************************************************)
(* C8: if the trimmed line begins with the 4 characters "/me ", the engine *)
(* send call has kind action and its text is the line without those 4      *)
(* characters; otherwise the kind is normal and the text is the whole      *)
(* trimmed line.                                                           *)
(***************************************************************************)
C8_ActionMarker ==
    (last.op = "text_in" /\ last.call.fn = "SendFriendMessage") =>
        IF /\ Len(last.line) >= 4
           /\ last.line[1] = "/" /\ last.line[2] = "m"
           /\ last.line[3] = "e" /\ last.line[4] = " "
        THEN /\ last.call.messageType = "action"
             /\ last.call.message = SubSeq(last.line, 5, Len(last.line))
        ELSE /\ last.call.messageType = "normal"
             /\ last.call.message = last.line

\* The line "/me  x" was sent as the action " x".
C8_Witness ==
    /\ last.op = "text_in"
    /\ last.line = <<"/", "m", "e", " ", " ", "x">>
    /\ last.call.fn = "SendFriendMessage"
    /\ last.call.messageType = "action"
    /\ last.call.message = <<" ", "x">>

(***************************************************************************)
(* Engine events: text messages and name changes of friends.               *)
(***************************************************************************)
Digits == <<"0", "1", "2", "3", "4", "5", "6", "7", "8", "9">>
\* fmt's %d of a number below 100
Decimal(n) == IF n < 10 THEN <<Digits[n + 1]>> ELSE <<Digits[(n \div 10) + 1], Digits[(n % 10) + 1]>>
\* the two-digit fields "15", "04", "05" of a time layout
TwoDigits(n) == <<Digits[(n \div 10) + 1], Digits[(n % 10) + 1]>>

\* A clock printed without leading zeros: the variant C9 must tell from the code.
Format150405_NoPadding(t) ==
    Decimal(t \div 3600) \o <<":">> \o Decimal((t % 3600) \div 60) \o <<":">> \o Decimal(t % 60)

\* time.Time.Format("15:04:05") of the local time t seconds after midnight
Format150405(t) ==
    TwoDigits(t \div 3600) \o <<":">> \o TwoDigits((t % 3600) \div 60)
        \o <<":">> \o TwoDigits(t % 60)

\* writeFIFO setting the last-used time whether or not the write succeeded: the variant
\* C12 must tell from the code.
writeFIFO_TouchOnError(w, path, data, openOK, writeOK) ==
    IF path \notin DOMAIN w.fifos THEN [w EXCEPT !.err = TRUE]
    ELSE IF ~w.fifos[path].IsOutput THEN [w EXCEPT !.err = TRUE]
    ELSE LET w1 == [w EXCEPT !.steps = Append(@, "OpenFile"), !.fifos[path].LastUsed = now]
         IN IF ~(openOK /\ path \in DOMAIN w.fs) THEN [w1 EXCEPT !.err = TRUE]
            ELSE LET w2 == [w1 EXCEPT !.steps = Append(@, "Fprintln")]
                 IN IF ~writeOK THEN [w2 EXCEPT !.err = TRUE]
                    ELSE [w2 EXCEPT !.writes = Append(@, [path |-> path,
                                                          data |-> data \o <<"\n">>])]

\* FIFOManager.writeFIFO(path, data); openOK: the pipe can be opened for writing (it has
\* a reader: O_WRONLY|O_NONBLOCK fails at once with ENXIO without one), writeOK: the
\* write does not fail.  The steps record each call of OpenFile and of Fprintln.
writeFIFO(w, path, data, openOK, writeOK) ==
    IF path \notin DOMAIN w.fifos THEN [w EXCEPT !.err = TRUE]
    ELSE IF ~w.fifos[path].IsOutput THEN [w EXCEPT !.err = TRUE]
    ELSE LET w1 == [w EXCEPT !.steps = Append(@, "OpenFile")]
         IN IF ~(openOK /\ path \in DOMAIN w.fs) THEN [w1 EXCEPT !.err = TRUE]
            ELSE LET w2 == [w1 EXCEPT !.steps = Append(@, "Fprintln")]
                 IN IF ~writeOK THEN [w2 EXCEPT !.err = TRUE]
                    ELSE [w2 EXCEPT !.writes = Append(@, [path |-> path,
                                                          data |-> data \o <<"\n">>]),
                                    !.fifos[path].LastUsed = now]

\* FIFOManager.WriteFriendTextOut(friendID, message)
WriteFriendTextOut(w, friendID, message, openOK, writeOK) ==
    writeFIFO(w, FriendFIFOPath(friendID, TextOut), message, openOK, writeOK)

\* Client.handleFriendMessage(friendID, message, messageType)
handleFriendMessage(w, friendID, message, messageType, openOK, writeOK) ==
    IF friendID \notin DOMAIN w.friends THEN Log(w, "unknown friend")
    ELSE LET w1 == [w EXCEPT !.friends[friendID].LastSeen = now]
             friend == w1.friends[friendID]
             timestamp == Format150405(now)
             formattedMessage ==
                 IF messageType = "action"
                 THEN <<"[">> \o timestamp \o <<"]", " ", "*", " ">> \o friend.Name
                          \o <<" ">> \o message
                 ELSE <<"[">> \o timestamp \o <<"]", " ", "<">> \o friend.Name
                          \o <<">", " ">> \o message
             w2 == WriteFriendTextOut(w1, EncodeToString(friend.PublicKey), formattedMessage,
                                      openOK, writeOK)
         IN IF w2.err THEN Log([w2 EXCEPT !.err = FALSE], "write failed") ELSE w2

\* Client.handleFriendNameChange(friendID, name)
handleFriendNameChange(w, friendID, name, fault) ==
    IF friendID \notin DOMAIN w.friends THEN w
    ELSE LET publicKey ==
                 IF w.friends[friendID].PublicKey = ZeroKey
                    /\ friendID \in DOMAIN w.tox.friends
                 THEN w.tox.friends[friendID].PublicKey
                 ELSE w.friends[friendID].PublicKey
             w1 == [w EXCEPT !.friends[friendID].Name = name,
                             !.friends[friendID].PublicKey = publicKey]
         IN IF publicKey # ZeroKey
            THEN [CreateFriendFIFOs(w1, EncodeToString(publicKey), fault) EXCEPT !.err = FALSE]
            ELSE w1

\* tox.OnFriendMessage: a text message arrives with the handle friendID the engine gives
FriendMessageEvent(friendID, message, messageType, openOK, writeOK) ==
    /\ phase # "init"
    /\ Commit(handleFriendMessage(
                   [World EXCEPT !.event = [friendID |-> friendID, kind |-> messageType]],
                   friendID, message, messageType, openOK, writeOK),
              "message", message)
    /\ UNCHANGED <<friendsByID, lifeVars, phase, now>>

\* tox.OnFriendName: the friend friendID changes its name.  Every call of
\* CreateFriendFIFOs starts one more polling task; the model stops at MaxMonitors per friend.
FriendNameEvent(friendID, name, fault) ==
    /\ phase # "init"
    /\ friendID \in DOMAIN tox.friends
    /\ LET w == handleFriendNameChange(
                    [World EXCEPT !.tox.friends[friendID].Name = name,
                                  !.event = [friendID |-> friendID, kind |-> "name"]],
                    friendID, name, fault)
       IN /\ \A id \in DOMAIN w.tasks : w.tasks[id] <= MaxMonitors
          /\ Commit(w, "name", name)
    /\ UNCHANGED <<friendsByID, lifeVars, phase, now>>

Messages == {<<"h", "i">>, <<"w", "a", "v", "e", "s">>}

InitEvents == GateStart(Times)

NextEvents ==
    \/ \E order \in Orders(DOMAIN tox.friends) :
           NewClient(order, [h \in DOMAIN tox.friends |-> NoFault])
    \/ \E friendID \in Handles, message \in Messages, messageType \in {"normal", "action"},
          openOK \in BOOLEAN :
           FriendMessageEvent(friendID, message, messageType, openOK, TRUE)
    \/ \E friendID \in Handles, name \in Names : FriendNameEvent(friendID, name, NoFault)

SpecEvents == InitEvents /\ [][NextEvents]_vars

\* The clock texts of the times of the model.
ClockText ==
    (3661 :> <<"0", "1", ":", "0", "1", ":", "0", "1">>)
        @@ (36000 :> <<"1", "0", ":", "0", "0", ":", "0", "0">>)
        @@ (86399 :> <<"2", "3", ":", "5", "9", ":", "5", "9">>)

(***************************************************************************)
(* C9: for a text message event from a known friend with display name N    *)
(* received at local time T, the line written to that friend's text_out    *)
(* pipe is "[T] <N> text" for a normal message and "[T] * N text" for an    *)
(* action message, with T formatted as HH:MM:SS and N the name stored in   *)
(* the registry when the event is handled.                                 *)
(***************************************************************************)
C9_TextOutLine ==
    (last.op = "message" /\ last.writes # <<>>) =>
        /\ last.event.friendID \in DOMAIN friends
        /\ Len(last.writes) = 1
        /\ last.writes[1].path =
               FriendFIFOPath(EncodeToString(friends[last.event.friendID].PublicKey), TextOut)
        /\ last.writes[1].data =
               IF last.event.kind = "action"
               THEN <<"[">> \o ClockText[now] \o <<"]", " ", "*", " ">>
                        \o friends[last.event.friendID].Name \o <<" ">> \o last.line
                        \o <<"\n">>
               ELSE <<"[">> \o ClockText[now] \o <<"]", " ", "<">>
                        \o friends[last.event.friendID].Name \o <<">", " ">> \o last.line
                        \o <<"\n">>

\* The action "waves" of the friend renamed to Al was written at 01:01:01 as
\* "[01:01:01] * Al waves".
C9_Witness ==
    /\ last.op = "message"
    /\ last.writes # <<>>
    /\ last.writes[1].data =
           <<"[", "0", "1", ":", "0", "1", ":", "0", "1", "]", " ", "*", " ",
             "A", "l", " ", "w", "a", "v", "e", "s", "\n">>

(***************************************************************************)
(* createFIFO step by step: the calls of two goroutines on one path.  The  *)
(* polling task of the global pipes (a request acceptance) and the event   *)
(* loop (a name event) both reach createFIFO through CreateFriendFIFOs.    *)
(* pc[g] is the statement goroutine g is at: "idle" (no call in progress), *)
(* "remove", "mkfifo", "chmod", "register".                                *)
(***************************************************************************)
Creators == {"accept", "name"}

\* the path the calls are made on: the text_in pipe of a friend
CreatePath == FriendFIFOPath(EncodeToString(KeyOf(171, 205)), TextIn)

\* A descriptor of CreatePath as createFIFO registers it.
CreateDescriptor ==
    [Path |-> CreatePath, Mode |-> FIFOPermInput, IsInput |-> TRUE, IsOutput |-> FALSE,
     File |-> "nil", LastUsed |-> now]

\* The client is running; the pipe may exist from an earlier creation.
InitCreate ==
    /\ friends = <<>>
    /\ friendsByID = <<>>
    /\ tox = [friends |-> <<>>]
    /\ pc = [g \in Creators |-> "idle"]
    /\ LifeRest
    /\ phase = "monitoring"
    /\ now = 3661
    /\ tasks = <<>>
    /\ saveFile = "none"
    /\ config = "none"
    /\ held = <<>>
    /\ locks = NoLocks
    /\ \E existing \in BOOLEAN :
        /\ fifos = IF existing THEN (CreatePath :> CreateDescriptor) ELSE <<>>
        /\ fs = (FriendDir(EncodeToString(KeyOf(171, 205))) :> [type |-> "dir", mode |-> DirPerm])
                    @@ (IF existing THEN (CreatePath :> [type |-> "fifo", mode |-> FIFOPermInput])
                        ELSE <<>>)
    /\ last = [op |-> "none", returned |-> 0, failed |-> 0, overlapped |-> FALSE,
               closed |-> {}, replaced |-> {}]

createVars == <<friends, friendsByID, tox, mon, mu, running, shutdownClosed, ctxDone,
                fmCtxDone, wg, fmwg, toxKilled, panicked, effects, phase, tasks, saveFile, config,
                held, locks, now>>

\* a call returns: with an error, or with nil; the counters stop at MaxReturns
Returned(ok) ==
    [last EXCEPT !.op = "createFIFO",
                 !.returned = IF ok /\ @ < MaxReturns THEN @ + 1 ELSE @,
                 !.failed = IF ~ok /\ @ < MaxReturns THEN @ + 1 ELSE @]

\* createFIFO, the first critical section: the existing descriptor is closed and deleted
CreateUnregister(g) ==
    /\ pc[g] = "idle"
    /\ pc' = [pc EXCEPT ![g] = "remove"]
    /\ fifos' = [p \in DOMAIN fifos \ {CreatePath} |-> fifos[p]]
    /\ last' = [last EXCEPT !.op = "createFIFO",
                            !.overlapped = @ \/ \E h \in Creators \ {g} : pc[h] # "idle",
                            !.closed = IF CreatePath \in DOMAIN fifos
                                          /\ fifos[CreatePath].File # "nil"
                                       THEN @ \cup {fifos[CreatePath].File} ELSE @,
                            !.replaced = IF CreatePath \in DOMAIN fifos
                                         THEN @ \cup {fifos[CreatePath]} ELSE @]
    /\ UNCHANGED <<fs, createVars>>

\* os.Remove(path): a missing file is no error
CreateRemove(g, ok) ==
    /\ pc[g] = "remove"
    /\ IF CreatePath \notin DOMAIN fs
       THEN /\ pc' = [pc EXCEPT ![g] = "mkfifo"]
            /\ UNCHANGED <<fs, last>>
       ELSE IF ok
       THEN /\ pc' = [pc EXCEPT ![g] = "mkfifo"]
            /\ fs' = [p \in DOMAIN fs \ {CreatePath} |-> fs[p]]
            /\ UNCHANGED last
       ELSE /\ pc' = [pc EXCEPT ![g] = "idle"]
            /\ last' = Returned(FALSE)
            /\ UNCHANGED fs
    /\ UNCHANGED <<fifos, createVars>>

\* createFIFO registering the descriptor although Mkfifo failed: the variant C31 must
\* tell from the code.
CreateMkfifo_RegisterOnError(g, ok) ==
    /\ pc[g] = "mkfifo"
    /\ pc' = [pc EXCEPT ![g] = IF ok /\ CreatePath \notin DOMAIN fs THEN "chmod" ELSE "idle"]
    /\ IF ok /\ CreatePath \notin DOMAIN fs
       THEN /\ fs' = (CreatePath :> [type |-> "fifo", mode |-> FIFOPermInput]) @@ fs
            /\ UNCHANGED <<fifos, last>>
       ELSE /\ fifos' = (CreatePath :> CreateDescriptor) @@ fifos
            /\ last' = Returned(FALSE)
            /\ UNCHANGED fs
    /\ UNCHANGED createVars

\* syscall.Mkfifo(path, perm): fails when the path exists
CreateMkfifo(g, ok) ==
    /\ pc[g] = "mkfifo"
    /\ IF ok /\ CreatePath \notin DOMAIN fs
       THEN /\ pc' = [pc EXCEPT ![g] = "chmod"]
            /\ fs' = (CreatePath :> [type |-> "fifo", mode |-> FIFOPermInput]) @@ fs
            /\ UNCHANGED last
       ELSE /\ pc' = [pc EXCEPT ![g] = "idle"]
            /\ last' = Returned(FALSE)
            /\ UNCHANGED fs
    /\ UNCHANGED <<fifos, createVars>>

\* os.Chmod(path, perm): fails when the path is missing
CreateChmod(g, ok) ==
    /\ pc[g] = "chmod"
    /\ IF ok /\ CreatePath \in DOMAIN fs
       THEN /\ pc' = [pc EXCEPT ![g] = "register"]
            /\ fs' = [fs EXCEPT ![CreatePath].mode = FIFOPermInput]
            /\ UNCHANGED last
       ELSE /\ pc' = [pc EXCEPT ![g] = "idle"]
            /\ last' = Returned(FALSE)
            /\ UNCHANGED fs
    /\ UNCHANGED <<fifos, createVars>>

\* createFIFO registering nothing: the variant C10 must tell from the code.
CreateRegister_Nothing(g) ==
    /\ pc[g] = "register"
    /\ pc' = [pc EXCEPT ![g] = "idle"]
    /\ last' = Returned(TRUE)
    /\ UNCHANGED <<fifos, fs, createVars>>

\* createFIFO, the second critical section: the new descriptor is registered; return nil
CreateRegister(g) ==
    /\ pc[g] = "register"
    /\ pc' = [pc EXCEPT ![g] = "idle"]
    /\ fifos' = (CreatePath :> CreateDescriptor) @@ fifos
    /\ last' = Returned(TRUE)
    /\ UNCHANGED <<fs, createVars>>

NextCreate ==
    \E g \in Creators :
        \/ CreateUnregister(g)
        \/ \E ok \in BOOLEAN : CreateRemove(g, ok)
        \/ \E ok \in BOOLEAN : CreateMkfifo(g, ok)
        \/ \E ok \in BOOLEAN : CreateChmod(g, ok)
        \/ CreateRegister(g)

SpecCreate == InitCreate /\ [][NextCreate]_vars

(***************************************************************************)
(* C10: after any sequence of createFIFO calls on the same path, including *)
(* two calls that run concurrently in different goroutines, once all calls *)
(* have returned successfully the descriptor table holds exactly one       *)
(* descriptor for the path, and no open file handle that belonged to a     *)
(* replaced descriptor remains open.                                       *)
(***************************************************************************)
C10_OneDescriptor ==
    (/\ \A g \in Creators : pc[g] = "idle"
     /\ last.op = "createFIFO"
     /\ last.returned > 0
     /\ last.failed = 0)
    => /\ CreatePath \in DOMAIN fifos
       /\ fifos[CreatePath].Path = CreatePath
       /\ \A d \in last.replaced : d.File # "nil" => d.File \in last.closed

\* Two overlapping calls have both returned nil and replaced an earlier descriptor.
C10_Witness ==
    /\ \A g \in Creators : pc[g] = "idle"
    /\ last.op = "createFIFO"
    /\ last.overlapped
    /\ last.returned >= 2
    /\ last.failed = 0
    /\ last.replaced # {}
    /\ CreatePath \in DOMAIN fifos

(***************************************************************************)
(* The cleanup sweep of the descriptor table.  The clock advances between  *)
(* the handlers; a text message refreshes the last-used time of the        *)
(* friend's text_out descriptor.                                           *)
(***************************************************************************)
\* 30 minutes, in seconds
IdleLimit == 1800
\* the moments of the model: the start at 01:01:01, one second later, and 30 minutes
\* after each of the two
Moments == {3661, 3662, 5461, 5462}

\* filepath.Base of a clean path: the element after the final separator
Base(path) ==
    IF \A i \in 1..Len(path) : path[i] # "/" THEN path
    ELSE LET slash == CHOOSE i \in 1..Len(path) :
                          path[i] = "/" /\ \A j \in (i + 1)..Len(path) : path[j] # "/"
         IN SubSeq(path, slash + 1, Len(path))

\* isGlobalFIFO(path)
isGlobalFIFO(path) ==
    LET name == Base(path)
    IN name = RequestIn \/ name = RequestOut \/ name = Name \/ name = StatusMessage

\* A sweep that does not ask whether a pipe is global: the variant C11 must tell from
\* the code.
cleanupUnusedFIFOs_GlobalsToo(w) ==
    LET cutoff == now - IdleLimit
    IN [w EXCEPT !.fifos = [p \in {q \in DOMAIN w.fifos : ~(w.fifos[q].LastUsed < cutoff)}
                                |-> w.fifos[p]]]

\* FIFOManager.cleanupUnusedFIFOs: the descriptors the loop does not delete stay
cleanupUnusedFIFOs(w) ==
    LET cutoff == now - IdleLimit
    IN [w EXCEPT !.fifos = [p \in {q \in DOMAIN w.fifos :
                                       ~(w.fifos[q].LastUsed < cutoff /\ ~isGlobalFIFO(q))}
                                |-> w.fifos[p]]]

\* periodicCleanup: one tick of the ticker.  The record of the run holds the table the
\* sweep started from and the time of the sweep.
CleanupSweep ==
    /\ phase = "monitoring"
    /\ LET w == cleanupUnusedFIFOs(World)
       IN /\ fifos' = w.fifos
          /\ last' = [op |-> "cleanup", at |-> now, call |-> w.call, steps |-> w.steps,
                      writes |-> w.writes, created |-> w.created, event |-> w.event,
                      log |-> w.log, handled |-> w.handled, line |-> <<>>, before |-> fifos]
    /\ UNCHANGED <<regVars, friendsByID, lifeVars, phase, fs, tasks, saveFile, config, held, locks, now>>

\* time passes: the clock reaches the moment t
Advance(t) ==
    /\ t > now
    /\ now' = t
    /\ UNCHANGED <<regVars, lifeVars, phase, fifos, fs, tasks, saveFile, config, held, locks, last>>

NextCleanup ==
    \/ \E order \in Orders(DOMAIN tox.friends) :
           NewClient(order, [h \in DOMAIN tox.friends |-> NoFault])
    \/ StartFIFOManager(NoFault, TRUE)
    \/ \E t \in Moments : Advance(t)
    \/ \E openOK \in BOOLEAN : FriendMessageEvent(0, <<"h", "i">>, "normal", openOK, TRUE)
    \/ CleanupSweep

SpecCleanup == InitGate /\ [][NextCleanup]_vars

\* The paths of the four global pipes.
GlobalPaths == {GlobalFIFOPath(n) : n \in {RequestIn, RequestOut, Name, StatusMessage}}

(***************************************************************************)
(* C11: a cleanup sweep removes from the descriptor table exactly the      *)
(* descriptors that are not global (request_in, request_out, name,         *)
(* status_message) and whose last-used time lies more than 30 minutes      *)
(* before the sweep; a global descriptor is never removed whatever its     *)
(* idle time, and a removed descriptor is absent from the table after the  *)
(* sweep.                                                                  *)
(***************************************************************************)
C11_SweepRemovesIdleNonGlobal ==
    last.op = "cleanup" =>
        /\ DOMAIN fifos =
               {p \in DOMAIN last.before :
                    p \in GlobalPaths \/ last.at - last.before[p].LastUsed <= IdleLimit}
        /\ \A p \in DOMAIN fifos : fifos[p] = last.before[p]

\* A sweep removed a friend's text_in descriptor, kept the text_out descriptor last used
\* exactly 30 minutes before, and kept the global pipes, idle for longer.
C11_Witness ==
    /\ last.op = "cleanup"
    /\ \E k \in PublicKeys :
        /\ FriendFIFOPath(EncodeToString(k), TextIn) \in DOMAIN last.before \ DOMAIN fifos
        /\ FriendFIFOPath(EncodeToString(k), TextOut) \in DOMAIN fifos
        /\ last.at - fifos[FriendFIFOPath(EncodeToString(k), TextOut)].LastUsed = IdleLimit
    /\ \A p \in GlobalPaths : p \in DOMAIN fifos /\ last.at - fifos[p].LastUsed > IdleLimit

\* The number of times the step s was taken in a run.
Count(steps, s) == Cardinality({i \in DOMAIN steps : steps[i] = s})

(***************************************************************************)
(* C12: a write to an output pipe that has no reader attached returns an   *)
(* error to the caller without blocking and without being retried, and     *)
(* leaves the descriptor's last-used time unchanged; the last-used time is *)
(* set to the current time only when the write succeeded.  The event       *)
(* handler that requested the write logs the error and finishes normally.  *)
(* As a property of every step of a text message event of a known friend:  *)
(* a last-used time changes only to the current time and only for the path *)
(* of a line that was written; when no line was written, the pipe was      *)
(* opened at most once and never written to, the descriptor table is       *)
(* unchanged, the error is in the log and the handler has completed.       *)
(***************************************************************************)
C12_FailedWriteLeavesLastUsed ==
    [][(last'.op = "message" /\ now' = now /\ last'.event.friendID \in DOMAIN friends) =>
          /\ \A p \in DOMAIN fifos' :
                 (p \in DOMAIN fifos /\ fifos'[p].LastUsed # fifos[p].LastUsed) =>
                     /\ fifos'[p].LastUsed = now
                     /\ \E i \in DOMAIN last'.writes : last'.writes[i].path = p
          /\ DOMAIN fifos' = DOMAIN fifos
          /\ last'.writes = <<>> =>
                 /\ fifos' = fifos
                 /\ Count(last'.steps, "OpenFile") <= 1
                 /\ Count(last'.steps, "Fprintln") = 0
                 /\ last'.log = <<"write failed">>
                 /\ friends'[last'.event.friendID].LastSeen = now]_vars

\* A message arrived when the text_out pipe had no reader, later than the pipe was last
\* used: the open was tried once, the error logged and the last-used time left alone.
C12_Witness ==
    /\ last.op = "message"
    /\ last.event.friendID \in DOMAIN friends
    /\ last.writes = <<>>
    /\ last.steps = <<"OpenFile">>
    /\ last.log = <<"write failed">>
    /\ LET p == FriendFIFOPath(EncodeToString(friends[last.event.friendID].PublicKey), TextOut)
       IN p \in DOMAIN fifos /\ fifos[p].LastUsed < friends[last.event.friendID].LastSeen

(***************************************************************************)
(* Polls of the input pipes: readFIFO reads the data a writer left in a    *)
(* pipe and hands each line to the handler of the pipe.                    *)
(***************************************************************************)
\* the number of lines of one poll
MaxLines == 2

\* the position of the first newline of data, 0 when there is none
FirstNewline(data) ==
    IF \A i \in 1..Len(data) : data[i] # "\n" THEN 0
    ELSE CHOOSE i \in 1..Len(data) : data[i] = "\n" /\ \A j \in 1..(i - 1) : data[j] # "\n"

\* bufio.Reader.ReadString('\n') called until it returns io.EOF: the lines of data with
\* their newlines; the data after the final newline comes with io.EOF
RECURSIVE ReadStrings(_)
ReadStrings(data) ==
    LET n == FirstNewline(data)
    IN IF n = 0 THEN <<>>
       ELSE <<SubSeq(data, 1, n)>> \o ReadStrings(SubSeq(data, n + 1, Len(data)))

\* Client.config.Save: the configuration written to the configuration file
Save(w, saveOK) ==
    IF saveOK
    THEN [w EXCEPT !.config.file = MarshalIndent(w.config),
                   !.steps = Append(@, "config.Save")]
    ELSE [w EXCEPT !.steps = Append(@, "config.Save"), !.err = TRUE]

\* UpdateSelfName storing the name before it calls the engine: the variant C20 must tell
\* from the code.
UpdateSelfName_StoreFirst(w, name, engineOK, saveOK) ==
    LET w1 == [w EXCEPT !.config.Name = name]
    IN IF ~engineOK
       THEN [w1 EXCEPT !.call = [ok |-> FALSE, fn |-> "SelfSetName", arg |-> name],
                       !.steps = Append(@, "SelfSetName"), !.err = TRUE]
       ELSE Save([w1 EXCEPT !.call = [ok |-> TRUE, fn |-> "SelfSetName", arg |-> name],
                            !.steps = Append(@, "SelfSetName")], saveOK)

\* Client.UpdateSelfName(name); engineOK: the engine call does not fail
UpdateSelfName(w, name, engineOK, saveOK) ==
    IF ~engineOK
    THEN [w EXCEPT !.call = [ok |-> FALSE, fn |-> "SelfSetName", arg |-> name],
                   !.steps = Append(@, "SelfSetName"), !.err = TRUE]
    ELSE Save([w EXCEPT !.call = [ok |-> TRUE, fn |-> "SelfSetName", arg |-> name],
                        !.steps = Append(@, "SelfSetName"),
                        !.config.Name = name], saveOK)

\* Client.UpdateSelfStatusMessage(message)
UpdateSelfStatusMessage(w, message, engineOK, saveOK) ==
    IF ~engineOK
    THEN [w EXCEPT !.call = [ok |-> FALSE, fn |-> "SelfSetStatusMessage", arg |-> message],
                   !.steps = Append(@, "SelfSetStatusMessage"), !.err = TRUE]
    ELSE Save([w EXCEPT !.call = [ok |-> TRUE, fn |-> "SelfSetStatusMessage", arg |-> message],
                        !.steps = Append(@, "SelfSetStatusMessage"),
                        !.config.StatusMessage = message], saveOK)

\* FIFOManager.handleNameChange(name)
handleNameChange(w, name, engineOK, saveOK) ==
    LET n == TrimSpace(name)
    IN IF Len(n) = 0 THEN Log(w, "empty name")
       ELSE LET w1 == UpdateSelfName(w, n, engineOK, saveOK)
            IN IF w1.err THEN Log([w1 EXCEPT !.err = FALSE], "update failed") ELSE w1

\* FIFOManager.handleStatusMessageChange(message)
handleStatusMessageChange(w, message, engineOK, saveOK) ==
    LET w1 == UpdateSelfStatusMessage(w, TrimSpace(message), engineOK, saveOK)
    IN IF w1.err THEN Log([w1 EXCEPT !.err = FALSE], "update failed") ELSE w1


\* os.FileInfo.Size of an entry of the filesystem: a pipe holds no bytes
Size(info) == IF info.type = "file" THEN info.size ELSE 0

\* FIFOManager.handleFriendFileIn(friendID, filePath); sendOK: the engine call does not
\* fail.  The file id is the SHA-256 of the path, the file name its last element.
handleFriendFileIn(w, friendID, filePath, sendOK) ==
    LET p == TrimSpace(filePath)
        w0 == Log(w, "file transfer request")
    IN IF Len(p) = 0 THEN w
       ELSE IF ~DecodeOK(friendID) THEN Log(w0, "invalid friend id")
       ELSE IF Len(DecodeString(friendID)) # 32 THEN Log(w0, "invalid friend id length")
       ELSE LET publicKey == Copy32(DecodeString(friendID))
                matches == {h \in DOMAIN w.friends : w.friends[h].PublicKey = publicKey}
            IN IF matches = {} THEN Log(w0, "friend not found")
               ELSE IF p \notin DOMAIN w.fs THEN Log(w0, "file not found")
               ELSE IF w.fs[p].type = "dir" THEN Log(w0, "cannot send directory")
               ELSE LET fileSize == Size(w.fs[p])
                        friendNum == CHOOSE h \in matches : TRUE
                    IN IF w.config.MaxFileSize > 0 /\ fileSize > w.config.MaxFileSize
                       THEN Log(w0, "file too large")
                       ELSE Log([w0 EXCEPT !.call = [ok |-> sendOK, friendID |-> friendNum,
                                                     fn |-> "FileSend", kind |-> 0,
                                                     fileSize |-> fileSize,
                                                     fileID |-> [sha256 |-> p],
                                                     filename |-> Base(p)],
                                           !.steps = Append(@, "FileSend")],
                                IF sendOK THEN "file transfer initiated"
                                ELSE "file transfer failed")

\* A pipe: its name and, for a friend's pipe, the friend's directory name.
GlobalPipe(name) == [friendID |-> <<>>, name |-> name]
FriendPipe(friendID, name) == [friendID |-> friendID, name |-> name]
PipePath(pipe) ==
    IF pipe.friendID = <<>> THEN GlobalFIFOPath(pipe.name)
    ELSE FriendFIFOPath(pipe.friendID, pipe.name)

\* The handler monitorGlobalFIFOs and monitorFriendFIFOs pass to readFIFO for each pipe;
\* env holds the outcomes of the calls the handler makes.
handler(w, pipe, line, env) ==
    CASE pipe.name = RequestIn ->
             handleRequestIn(w, line, env.engineOK, env.fault, env.saveOK)
      [] pipe.name = Name -> handleNameChange(w, line, env.engineOK, env.saveOK)
      [] pipe.name = StatusMessage ->
             handleStatusMessageChange(w, line, env.engineOK, env.saveOK)
      [] pipe.name = TextIn -> handleFriendTextIn(w, pipe.friendID, line, env.engineOK)
      [] pipe.name = FileIn -> handleFriendFileIn(w, pipe.friendID, line, env.engineOK)

\* a poll that is never cancelled
NoCut == MaxLines + 1

\* The loop of readFIFO handing over a line before it is trimmed: the variant C13 must
\* tell from the code.
RECURSIVE readLoop_Untrimmed(_, _, _, _, _, _)
readLoop_Untrimmed(w, pipe, lines, i, cut, env) ==
    IF i > cut THEN [w EXCEPT !.err = TRUE]
    ELSE IF i > Len(lines) THEN w
    ELSE LET line == lines[i]
             r == handler([w EXCEPT !.call = NoCall], pipe, line, env)
             w1 == IF TrimSpace(line) = <<>> THEN w
                   ELSE [r EXCEPT !.handled = Append(@, [call |-> r.call, arg |-> line,
                                                         logged |-> Len(r.log) - Len(w.log)])]
         IN readLoop_Untrimmed(w1, pipe, lines, i + 1, cut, env)

\* The loop of readFIFO ending at the first line its handler rejects: the variant C14
\* must tell from the code.
RECURSIVE readLoop_StopOnInvalid(_, _, _, _, _, _)
readLoop_StopOnInvalid(w, pipe, lines, i, cut, env) ==
    IF i > cut THEN [w EXCEPT !.err = TRUE]
    ELSE IF i > Len(lines) THEN w
    ELSE LET line == TrimSpace(lines[i])
             r == handler([w EXCEPT !.call = NoCall], pipe, line, env)
             w1 == IF line = <<>> THEN w
                   ELSE [r EXCEPT !.handled = Append(@, [call |-> r.call, arg |-> line,
                                                         logged |-> Len(r.log) - Len(w.log)])]
         IN IF line # <<>> /\ r.call = NoCall THEN w1
            ELSE readLoop_StopOnInvalid(w1, pipe, lines, i + 1, cut, env)

\* The loop of readFIFO over the lines ReadString returns.  The context is found
\* cancelled before the read number cut + 1 (return ctx.Err()); io.EOF ends the loop.  Each
\* call of the handler is recorded with its argument, its engine call and the number of
\* its log entries.
RECURSIVE readLoop(_, _, _, _, _, _)
readLoop(w, pipe, lines, i, cut, env) ==
    IF i > cut THEN [w EXCEPT !.err = TRUE]
    ELSE IF i > Len(lines) THEN w
    ELSE LET line == TrimSpace(lines[i])
             r == handler([w EXCEPT !.call = NoCall], pipe, line, env)
             w1 == IF line = <<>> THEN w
                   ELSE [r EXCEPT !.handled = Append(@, [call |-> r.call, arg |-> line,
                                                         logged |-> Len(r.log) - Len(w.log)])]
         IN readLoop(w1, pipe, lines, i + 1, cut, env)

\* readFIFO looking the descriptor of the path up first, as writeFIFO does: the variant
\* C37 must tell from the code.
readFIFO_RegisteredOnly(w, pipe, data, cut, env) ==
    IF cut = 0 THEN [w EXCEPT !.err = TRUE]
    ELSE IF PipePath(pipe) \notin DOMAIN w.fifos THEN [w EXCEPT !.err = TRUE]
    ELSE IF PipePath(pipe) \notin DOMAIN w.fs THEN [w EXCEPT !.err = TRUE]
    ELSE readLoop(w, pipe, ReadStrings(data), 1, cut, env)

\* FIFOManager.readFIFO(ctx, path, handler) on a pipe that holds data
readFIFO(w, pipe, data, cut, env) ==
    IF cut = 0 THEN [w EXCEPT !.err = TRUE]
    ELSE IF PipePath(pipe) \notin DOMAIN w.fs THEN [w EXCEPT !.err = TRUE]
    ELSE readLoop(w, pipe, ReadStrings(data), 1, cut, env)

\* monitorGlobalFIFOs / monitorFriendFIFOs: one poll of a pipe a writer has left data in.
\* The polling task of the global pipes runs once FIFOManager.Run has created them, the
\* task of a friend once CreateFriendFIFOs has started it; a failing poll is logged in
\* debug mode and the loop goes on.
Poll(pipe, data, cut, env) ==
    /\ IF pipe.friendID = <<>> THEN phase = "monitoring"
       ELSE /\ phase # "init"
            /\ pipe.friendID \in DOMAIN tasks
            /\ tasks[pipe.friendID] > 0
    /\ LET w == readFIFO(World, pipe, data, cut, env)
       IN /\ Leave(w)
          /\ last' = [op |-> "poll", call |-> w.call, steps |-> w.steps, writes |-> w.writes,
                      created |-> w.created, event |-> w.event, log |-> w.log,
                      handled |-> w.handled, line |-> data, pipe |-> pipe, cut |-> cut]
    /\ UNCHANGED <<friendsByID, lifeVars, phase, now>>

\* The data a writer leaves in a pipe: up to n lines of the texts T, then one of the tails.
RECURSIVE PipeLines(_, _)
PipeLines(T, n) ==
    IF n = 0 THEN {<<>>}
    ELSE PipeLines(T, n - 1) \cup {d \o t \o <<"\n">> : d \in PipeLines(T, n - 1), t \in T}
PipeData(T, n, tails) == {d \o tail : d \in PipeLines(T, n), tail \in tails}

\* The texts written to the name pipe: two names with white space around them, a line of
\* white space and an empty line; data without a final newline ends in "Z".
NameTexts == {<<" ", "A", "l", "\r">>, <<"\t", "B", "o", " ">>, <<" ", "\t">>, <<>>}
NameTails == {<<>>, <<"Z">>}
NameData == PipeData(NameTexts, MaxLines, NameTails)

InitRead == InitGate /\ tox.friends = <<>>

NextRead ==
    \/ NewClient(<<>>, <<>>)
    \/ StartFIFOManager(NoFault, TRUE)
    \/ \E data \in NameData, cut \in 0..NoCut :
           Poll(GlobalPipe(Name), data, cut,
                [fault |-> NoFault, saveOK |-> TRUE, engineOK |-> TRUE])

SpecRead == InitRead /\ [][NextRead]_vars

\* The complete lines of data, without their newlines: the bytes between one newline and
\* the next.
NewlineAt(data) == {i \in 1..Len(data) : data[i] = "\n"}
Nth(S, k) == CHOOSE x \in S : Cardinality({y \in S : y < x}) = k - 1
CompleteLines(data) ==
    [k \in 1..Cardinality(NewlineAt(data)) |->
        SubSeq(data, IF k = 1 THEN 1 ELSE Nth(NewlineAt(data), k - 1) + 1,
               Nth(NewlineAt(data), k) - 1)]
\* The trimmed lines that are not empty, in their order.
Trimmed(lines) == [i \in DOMAIN lines |-> TrimSpace(lines[i])]
IsText(t) == t # <<>>
NonEmpty(lines) == SelectSeq(Trimmed(lines), IsText)
\* The arguments of the calls of the handler, in their order.
Args(handled) == [i \in DOMAIN handled |-> handled[i].arg]
Smaller(a, b) == IF a < b THEN a ELSE b

(***************************************************************************)
(* C13: in one poll of an input pipe that is not cut short by the          *)
(* cancellation of its context, the handler is called exactly once for     *)
(* each complete newline-terminated line whose trimmed content is          *)
(* non-empty, in the order the lines were written and with the trimmed     *)
(* content as argument; it is never called for an empty or whitespace-only *)
(* line, nor for trailing data that has no terminating newline.  A poll    *)
(* whose context is cancelled after k reads handles the first k lines in   *)
(* this way and drops the others.                                          *)
(***************************************************************************)
C13_PollDeliversLines ==
    last.op = "poll" =>
        LET lines == CompleteLines(last.line)
        IN Args(last.handled) =
               NonEmpty(SubSeq(lines, 1, Smaller(last.cut, Len(lines))))

\* " Al\r", then "\tBo " and the unterminated "Z" were read in one poll to the end: the
\* handler was called with "Al", then with "Bo".
C13_Witness ==
    /\ last.op = "poll"
    /\ last.cut = NoCut
    /\ last.line = <<" ", "A", "l", "\r", "\n", "\t", "B", "o", " ", "\n", "Z">>
    /\ Args(last.handled) = << <<"A", "l">>, <<"B", "o">> >>

\* C13 as stated (every poll hands every complete non-empty line to the handler): violated
\* by a poll that finds its context cancelled before it has read the second line.
C13_EveryCompleteLine ==
    last.op = "poll" => Args(last.handled) = NonEmpty(CompleteLines(last.line))


(***************************************************************************)
(* Invalid lines: polls of the four kinds of input pipe with lines the     *)
(* handlers reject, followed by lines they accept.                         *)
(***************************************************************************)
\* the files of the user, outside the configuration directory: two regular files (one
\* byte, and one byte more than the default limit), a directory, a pipe, a device and a
\* socket
UserFS ==
    (<<"/", "f">> :> [type |-> "file", mode |-> 420, size |-> 1])
        @@ (<<"/", "b", "i", "g">> :>
                [type |-> "file", mode |-> 420, size |-> DefaultMaxFileSize + 1])
        @@ (<<"/", "d">> :> [type |-> "dir", mode |-> 493])
        @@ (<<"/", "p">> :> [type |-> "fifo", mode |-> 420])
        @@ (<<"/", "t", "t", "y">> :> [type |-> "device", mode |-> 420])
        @@ (<<"/", "s">> :> [type |-> "socket", mode |-> 420])

\* one friend is persisted
InitInvalid ==
    /\ GateStartWith({3661}, {DefaultMaxFileSize}, UserFS)
    /\ DOMAIN tox.friends = {0}
    /\ tox.friends[0].PublicKey = KeyOf(171, 205)

\* the friend whose pipes are written to
Bob == EncodeToString(KeyOf(171, 205))

\* The lines of each pipe: a key that is no friend yet, a key of 63 digits and a key with
\* a letter that is no hex digit; a name and a line of white space; a text and a text of
\* 1373 bytes; a file, a file over the limit and a missing file.
InvalidTexts ==
    [name |-> {<<"A", "l">>, <<" ">>},
     request_in |-> {EncodeToString(KeyOf(18, 52)),
                     SubSeq(EncodeToString(KeyOf(18, 52)), 1, 63),
                     [EncodeToString(KeyOf(18, 52)) EXCEPT ![1] = "g"]},
     text_in |-> {<<"h", "i">>, Repeat(<<"a">>, 1373)},
     file_in |-> {<<"/", "f">>, <<"/", "b", "i", "g">>, <<"/", "x">>}]
RequestInData == PipeData(InvalidTexts.request_in, MaxLines, {<<>>})
NameLineData == PipeData(InvalidTexts.name, MaxLines, {<<>>})
\* (a text of 1373 bytes is only written as the first of two lines)
TextInData ==
    {d \in PipeData(InvalidTexts.text_in, MaxLines, {<<>>}) :
        Len(d) < 1373 \/ (Len(d) < 2 * 1373 /\ d[1374] = "\n" /\ Len(d) > 1374)}
FileInData == PipeData(InvalidTexts.file_in, MaxLines, {<<>>})

\* every call the handlers make succeeds
AllOK == [fault |-> NoFault, saveOK |-> TRUE, engineOK |-> TRUE]

NextInvalid ==
    \/ NewClient(<<0>>, [h \in {0} |-> NoFault])
    \/ StartFIFOManager(NoFault, TRUE)
    \/ \E data \in RequestInData : Poll(GlobalPipe(RequestIn), data, NoCut, AllOK)
    \/ \E data \in NameLineData : Poll(GlobalPipe(Name), data, NoCut, AllOK)
    \/ \E data \in TextInData : Poll(FriendPipe(Bob, TextIn), data, NoCut, AllOK)
    \/ \E data \in FileInData : Poll(FriendPipe(Bob, FileIn), data, NoCut, AllOK)

SpecInvalid == InitInvalid /\ [][NextInvalid]_vars

\* The friend whose directory a pipe is in is registered.
KnownPeer(pipe) ==
    \E h \in DOMAIN friends : EncodeToString(friends[h].PublicKey) = pipe.friendID

\* A line is valid for its pipe: a key of 64 or 76 bytes with 64 hex digits; a name; a
\* text of 1 to 1372 bytes for a known peer; a regular file within the limit for a known
\* peer.
ValidLine(pipe, t) ==
    CASE pipe.name = RequestIn -> Len(t) \in {64, 76} /\ HexKey(t)
      [] pipe.name = Name -> t # <<>>
      [] pipe.name = StatusMessage -> TRUE
      [] pipe.name = TextIn ->
             KnownPeer(pipe) /\ 1 <= Len(TextOf(t)) /\ Len(TextOf(t)) <= 1372
      [] pipe.name = FileIn ->
             /\ KnownPeer(pipe)
             /\ t \in DOMAIN fs
             /\ fs[t].type = "file"
             /\ fs[t].size <= config.MaxFileSize

\* The engine call of a valid line of a pipe.
CallOf(pipe) ==
    CASE pipe.name = RequestIn -> "AddFriendByPublicKey"
      [] pipe.name = Name -> "SelfSetName"
      [] pipe.name = StatusMessage -> "SelfSetStatusMessage"
      [] pipe.name = TextIn -> "SendFriendMessage"
      [] pipe.name = FileIn -> "FileSend"

(***************************************************************************)
(* C14: for every invalid line on any input pipe (mis-sized or non-hex     *)
(* identifier, unknown peer, empty name, oversized message, missing or     *)
(* oversized file), the handler returns normally and the polling loop that *)
(* read the line keeps running, so that a later valid line on the same     *)
(* pipe is still processed.  In a poll that runs to the end of the data,   *)
(* every non-empty line is handed to the handler, an invalid line causes   *)
(* no engine call and a valid line causes the engine call of its pipe,     *)
(* whatever lines came before it; and after the poll the polling task and  *)
(* the pipe are still there for the next poll.                             *)
(***************************************************************************)
C14_InvalidLineLoopGoesOn ==
    (last.op = "poll" /\ last.cut = NoCut) =>
        /\ Args(last.handled) = NonEmpty(CompleteLines(last.line))
        /\ \A i \in DOMAIN last.handled :
               last.handled[i].call.fn =
                   IF ValidLine(last.pipe, last.handled[i].arg)
                   THEN CallOf(last.pipe) ELSE "none"
        /\ PipePath(last.pipe) \in DOMAIN fs
        /\ IF last.pipe.friendID = <<>> THEN phase = "monitoring"
           ELSE tasks[last.pipe.friendID] > 0

\* The path of a missing file was followed on a file_in pipe by the path of a file in the
\* same poll, and the transfer of the file was started.
C14_Witness ==
    /\ last.op = "poll"
    /\ last.pipe = FriendPipe(Bob, FileIn)
    /\ Len(last.handled) = 2
    /\ last.handled[1].arg = <<"/", "x">>
    /\ last.handled[1].call.fn = "none"
    /\ last.handled[1].logged > 0
    /\ last.handled[2].call.fn = "FileSend"
    /\ last.handled[2].call.ok
    /\ friends # <<>>


(***************************************************************************)
(* Unknown peers: events with a handle the registry does not hold, and the *)
(* handlers of a friend's input pipes called with a directory name no      *)
(* record carries.                                                         *)
(***************************************************************************)
\* handleFriendTextIn(friendID, line) / handleFriendFileIn(friendID, line) called with the
\* directory name friendID.  (monitorFriendFIFOs calls them with the name CreateFriendFIFOs
\* was given, the key of a registered friend; here the name is any of the names of the
\* model.)
HandleFriendLine(name, friendID, raw, sendOK) ==
    /\ phase # "init"
    /\ LET line == TrimSpace(raw)
           w == [World EXCEPT !.event = [friendID |-> friendID, kind |-> name]]
       IN Commit(IF line = <<>> THEN w
                 ELSE handler(w, FriendPipe(friendID, name), line,
                              [fault |-> NoFault, saveOK |-> TRUE, engineOK |-> sendOK]),
                 "line", line)
    /\ UNCHANGED <<friendsByID, lifeVars, phase, now>>

\* the directory names: the keys of the model and a name that is no hex string
DirNames == {EncodeToString(k) : k \in PublicKeys} \cup {<<"z", "z">>}
\* the lines: a text for text_in, the path of a file for file_in
FriendLines == (TextIn :> <<"h", "i">>) @@ (FileIn :> <<"/", "f">>)

InitUnknown == GateStartWith({3661}, {DefaultMaxFileSize}, UserFS)

NextUnknown ==
    \/ \E order \in Orders(DOMAIN tox.friends) :
           NewClient(order, [h \in DOMAIN tox.friends |-> NoFault])
    \/ \E friendID \in Handles, message \in Messages, messageType \in {"normal", "action"},
          openOK \in BOOLEAN :
           FriendMessageEvent(friendID, message, messageType, openOK, TRUE)
    \/ \E name \in {TextIn, FileIn}, friendID \in DirNames, sendOK \in BOOLEAN :
           HandleFriendLine(name, friendID, FriendLines[name], sendOK)

SpecUnknown == InitUnknown /\ [][NextUnknown]_vars

\* The key a directory name stands for is the key of a record of the registry.
Registered(friendID) ==
    \E h \in DOMAIN friends : EncodeToString(friends[h].PublicKey) = friendID

(***************************************************************************)
(* C15: an event or input line that refers to a peer not in the registry   *)
(* has no effect besides a log entry: a text message event with an unknown *)
(* handle writes to no pipe and changes no record, and a text_in or        *)
(* file_in line whose directory key matches no registered friend causes no *)
(* engine call.                                                            *)
(***************************************************************************)
C15_UnknownPeerDropped ==
    [][/\ (last'.op = "message" /\ last'.event.friendID \notin DOMAIN friends) =>
            /\ last'.writes = <<>>
            /\ last'.call = NoCall
            /\ last'.log = <<"unknown friend">>
            /\ UNCHANGED <<friends, tox, fifos, fs, tasks, saveFile, config>>
       /\ (last'.op = "line" /\ ~Registered(last'.event.friendID)) =>
            /\ last'.writes = <<>>
            /\ last'.call = NoCall
            /\ last'.log # <<>>
            /\ UNCHANGED <<friends, tox, fifos, fs, tasks, saveFile, config>>]_vars

\* A message event with handle 1 reached a client whose registry holds only handle 0, and
\* was logged and dropped.
C15_Witness ==
    /\ last.op = "message"
    /\ last.event.friendID = 1
    /\ DOMAIN friends = {0}
    /\ last.log = <<"unknown friend">>
    /\ last.writes = <<>>


(***************************************************************************)
(* Outbound files: lines written to a friend's file_in pipe.               *)
(***************************************************************************)
\* the paths written: the files of the user and a path that does not exist
FilePaths == DOMAIN UserFS \cup {<<"/", "x">>}
\* one path, or one path followed by the path of the file of one byte
FileInLines ==
    {p \o <<"\n">> : p \in FilePaths}
        \cup {p \o <<"\n", "/", "f", "\n">> : p \in FilePaths}

\* the limits of the configuration file: the default, one byte, and 0
FileSizeLimits == {DefaultMaxFileSize, 1, 0}

\* one friend is persisted
InitFileIn ==
    /\ GateStartWith({3661}, FileSizeLimits, UserFS)
    /\ DOMAIN tox.friends = {0}

NextFileIn ==
    \/ NewClient(<<0>>, [h \in {0} |-> NoFault])
    \/ \E friendID \in DOMAIN tasks, data \in FileInLines, sendOK \in BOOLEAN :
           Poll(FriendPipe(friendID, FileIn), data, NoCut,
                [fault |-> NoFault, saveOK |-> TRUE, engineOK |-> sendOK])

SpecFileIn == InitFileIn /\ [][NextFileIn]_vars

(***************************************************************************)
(* C16: a file_in line starts a transfer through the engine if and only if *)
(* the path exists, names a regular file, and its size does not exceed the *)
(* configured maximum; a missing path, a directory, any other non-regular  *)
(* file (pipe, device, socket) or an oversized file causes no engine call  *)
(* and does not affect the handling of later lines.                        *)
(***************************************************************************)
C16_TransferIffRegularFile ==
    (last.op = "poll" /\ last.pipe.name = FileIn) =>
        /\ Args(last.handled) = NonEmpty(CompleteLines(last.line))
        /\ \A i \in DOMAIN last.handled :
               LET path == last.handled[i].arg
               IN (last.handled[i].call.fn = "FileSend")
                      <=> /\ path \in DOMAIN fs
                          /\ fs[path].type = "file"
                          /\ fs[path].size <= config.MaxFileSize


(***************************************************************************)
(* Startup failure of the FIFO manager (FIFOManager.Run, Client.Run).      *)
(***************************************************************************)
\* createGlobalFIFOs has failed: FIFOManager.Run has logged the error and gone
\* to its deferred fm.wg.Wait() without starting the global polling task
CreateFailed ==
    /\ pc["fifo"] \in {"fifo_wg", "done"}
    /\ pc["global"] = "off"

\* No iteration loop, save loop, cleanup loop or polling loop is running.
NoLoopRunning ==
    /\ pc["run"] # "run_loop"
    /\ pc["autosave"] # "save_loop"
    /\ pc["cleanup"] # "clean_loop"
    /\ pc["global"] \notin {"g_check", "g_poll"}
    /\ \A i \in Monitors : mon[i] \notin {"check", "poll"}

(***************************************************************************)
(* C17: if creating the global directory or any global pipe fails during   *)
(* startup, Run returns an error and the client does not reach the running *)
(* state: no engine iteration, save, cleanup or polling loop keeps running *)
(* afterwards.  Stated as: once the creation has failed, the loops come to *)
(* a stop.                                                                 *)
(***************************************************************************)
C17_FailedStartStopsClient == CreateFailed ~> NoLoopRunning


(***************************************************************************)
(* Presence events of friends.                                             *)
(***************************************************************************)
\* Client.setupCallbacks: the events a callback is registered for.  The
\* registration of OnFriendStatus is commented out.
setupCallbacks ==
    {"FriendRequest", "FriendMessageDetailed", "FriendName", "FileRecv", "FileRecvChunk",
     "FileChunkRequest"}

\* the engine delivers an event to the callback registered for it, if there is one:
\* w is the world before the event and handled the world the handler would leave
Deliver(callback, w, handled) == IF callback \in setupCallbacks THEN handled ELSE w

\* FIFOManager.WriteFriendStatus(friendID, status)
WriteFriendStatus(w, friendID, status, openOK, writeOK) ==
    writeFIFO(w, FriendFIFOPath(friendID, Status), status, openOK, writeOK)

\* Client.handleFriendStatusChange(friendID, status)
handleFriendStatusChange(w, friendID, status, openOK, writeOK) ==
    IF friendID \notin DOMAIN w.friends THEN w
    ELSE LET w1 == [w EXCEPT !.friends[friendID].Status = status]
             friendIDStr == EncodeToString(w1.friends[friendID].PublicKey)
             statusStr ==
                 CASE status = 0 -> <<"o", "n", "l", "i", "n", "e">>
                   [] status = 1 -> <<"a", "w", "a", "y">>
                   [] status = 2 -> <<"b", "u", "s", "y">>
                   [] OTHER -> <<"o", "f", "f", "l", "i", "n", "e">>
             w2 == WriteFriendStatus(w1, friendIDStr, statusStr, openOK, writeOK)
         IN IF w2.err THEN Log([w2 EXCEPT !.err = FALSE], "write failed") ELSE w2

\* the presence values the engine reports: none, away, busy, and one outside the range
Presences == {0, 1, 2, 3}

\* The engine emits a presence change of the friend friendID; openOK: the friend's
\* status pipe has a reader.
FriendStatusEvent(friendID, status, openOK) ==
    /\ phase # "init"
    /\ LET w == [World EXCEPT !.event = [friendID |-> friendID, kind |-> "status",
                                         status |-> status, reader |-> openOK]]
       IN Commit(Deliver("FriendStatus", w,
                         handleFriendStatusChange(w, friendID, status, openOK, TRUE)),
                 "status", <<>>)
    /\ UNCHANGED <<friendsByID, lifeVars, phase, now>>

InitPresence == GateStart({3661})

NextPresence ==
    \/ \E order \in Orders(DOMAIN tox.friends) :
           NewClient(order, [h \in DOMAIN tox.friends |-> NoFault])
    \/ \E friendID \in Handles, openOK \in BOOLEAN :
           FriendMessageEvent(friendID, <<"h", "i">>, "normal", openOK, TRUE)
    \/ \E friendID \in Handles, status \in Presences, openOK \in BOOLEAN :
           FriendStatusEvent(friendID, status, openOK)

SpecPresence == InitPresence /\ [][NextPresence]_vars

\* the text of a presence value
PresenceText(status) ==
    CASE status = 0 -> <<"o", "n", "l", "i", "n", "e">>
      [] status = 1 -> <<"a", "w", "a", "y">>
      [] status = 2 -> <<"b", "u", "s", "y">>
      [] OTHER -> <<"o", "f", "f", "l", "i", "n", "e">>

(***************************************************************************)
(* C18: every presence change event that the engine emits for a known      *)
(* friend reaches the presence handler, which updates the presence stored  *)
(* in the registry and writes exactly one line to that friend's status     *)
(* pipe: online, away or busy for the corresponding presence value and     *)
(* offline for any other value.  Stated for a status pipe that has a       *)
(* reader.                                                                 *)
(***************************************************************************)
C18_PresenceReachesStatusPipe ==
    [][(last'.op = "status" /\ last'.event.friendID \in DOMAIN friends
           /\ last'.event.reader)
         => LET friendID == last'.event.friendID
                path == FriendFIFOPath(EncodeToString(friends[friendID].PublicKey), Status)
            IN /\ friends'[friendID].Status = last'.event.status
               /\ last'.writes = <<[path |-> path,
                                    data |-> PresenceText(last'.event.status) \o <<"\n">>]>>
       ]_vars


(***************************************************************************)
(* Startup with persisted friends: client.New and its loadFriends.         *)
(***************************************************************************)
\* the failures of the filesystem during the creation of one friend's pipes
StartupFaults ==
    {NoFault, [at |-> 0, call |-> "mkdir"]} \cup [at : {1, 3, 5}, call : {"mkfifo", "chmod"}]

InitStartup == GateStart({3661})

NextStartup ==
    \E order \in Orders(DOMAIN tox.friends), faults \in [DOMAIN tox.friends -> StartupFaults] :
        NewClient(order, faults)

SpecStartup == InitStartup /\ [][NextStartup]_vars

\* After startup the registry holds one record per persisted friend, with its key.
OneRecordPerPersisted ==
    /\ DOMAIN friends = DOMAIN saveFile
    /\ Cardinality(DOMAIN friends) = Cardinality(DOMAIN saveFile)
    /\ \A h \in DOMAIN friends :
           /\ friends[h].ID = h
           /\ friends[h].PublicKey = saveFile[h].PublicKey

\* The friend directory of the record h exists and the table holds its five pipes.
DirectoryAndPipes(h) ==
    LET friendID == EncodeToString(friends[h].PublicKey)
    IN /\ FriendDir(friendID) \in DOMAIN fs
       /\ fs[FriendDir(friendID)].type = "dir"
       /\ FiveDescriptors(fifos, friendID)

ProfileTexts == {<<" ", "A", "l", "\r">>, <<"\t", "B", "o", " ">>}
ProfileData == {t \o <<"\n">> : t \in ProfileTexts}

NextProfile ==
    \/ NewClient(<<>>, <<>>)
    \/ StartFIFOManager(NoFault, TRUE)
    \/ \E data \in ProfileData, engineOK \in BOOLEAN, saveOK \in BOOLEAN :
           Poll(GlobalPipe(Name), data, NoCut,
                [fault |-> NoFault, saveOK |-> saveOK, engineOK |-> engineOK])
    \/ \E data \in ProfileData, engineOK \in BOOLEAN, saveOK \in BOOLEAN :
           Poll(GlobalPipe(StatusMessage), data, NoCut,
                [fault |-> NoFault, saveOK |-> saveOK, engineOK |-> engineOK])

SpecProfile == InitRead /\ [][NextProfile]_vars

\* the content of a configuration: what Save writes
Content(cfg) == MarshalIndent(cfg)

(***************************************************************************)
(* C20: a non-empty line on the name pipe calls the engine's set-name      *)
(* operation with the trimmed text and, if and only if that call succeeds, *)
(* stores the name in the configuration and saves the configuration (one   *)
(* call of Save; the file holds the new content when the write succeeds);  *)
(* when the engine call fails the configuration value is unchanged and     *)
(* nothing is saved.  The status_message pipe behaves the same way for the *)
(* status text.                                                            *)
(***************************************************************************)
C20_ProfileStoredIffEngineAccepts ==
    [][(/\ last'.op = "poll"
        /\ last'.pipe \in {GlobalPipe(Name), GlobalPipe(StatusMessage)}
        /\ Len(NonEmpty(CompleteLines(last'.line))) = 1)
         => LET text == NonEmpty(CompleteLines(last'.line))[1]
                isName == last'.pipe = GlobalPipe(Name)
                field == IF isName THEN "Name" ELSE "StatusMessage"
                other == IF isName THEN "StatusMessage" ELSE "Name"
                call == last'.call
            IN /\ Len(last'.handled) = 1
               /\ call.fn = (IF isName THEN "SelfSetName" ELSE "SelfSetStatusMessage")
               /\ call.arg = text
               /\ Count(last'.steps, call.fn) = 1
               /\ IF call.ok
                  THEN /\ config'[field] = text
                       /\ config'[other] = config[other]
                       /\ config'.MaxFileSize = config.MaxFileSize
                       /\ Count(last'.steps, "config.Save") = 1
                       /\ config'.file \in {config.file, Content(config')}
                  ELSE /\ config' = config
                       /\ Count(last'.steps, "config.Save") = 0
       ]_vars

\* The name line " Al\r" has been accepted by the engine, stored and saved; the status
\* text is still the one loaded.
C20_Witness ==
    /\ last.op = "poll"
    /\ last.pipe = GlobalPipe(Name)
    /\ last.call = [ok |-> TRUE, fn |-> "SelfSetName", arg |-> <<"A", "l">>]
    /\ config.Name = <<"A", "l">>
    /\ config.file.name = <<"A", "l">>
    /\ config.StatusMessage = DefaultStatusMessage


(***************************************************************************)
(* Friend values handed out by the registry: Client.GetFriend.             *)
(***************************************************************************)
\* Client.GetFriend(friendID): under the read lock, friend, exists := c.friends[friendID];
\* the result is the *Friend stored in the map, not a copy of the record.  A pointer is
\* modelled by the handle whose record it points to: no record of the map is replaced
\* while the client runs.
GetFriend(w, friendID) ==
    IF friendID \in DOMAIN w.friends
    THEN [friend |-> <<[friendID |-> friendID]>>, exists |-> TRUE]
    ELSE [friend |-> <<>>, exists |-> FALSE]

\* the Friend a pointer gives when it is read
Deref(ptr) == friends[ptr.friendID]

\* A caller calls GetFriend and keeps the result; obtained remembers the record as it
\* was read at the call (and as the caller has changed it since).
GetFriendCall(friendID) ==
    /\ phase # "init"
    /\ LET r == GetFriend(World, friendID)
       IN held' = IF r.exists
                  THEN <<[friendID |-> r.friend[1].friendID, obtained |-> friends[friendID]]>>
                  ELSE <<>>
    /\ last' = [op |-> "GetFriend", call |-> NoCall, steps |-> <<>>, writes |-> <<>>,
                created |-> FALSE, event |-> [friendID |-> friendID, kind |-> "none"],
                log |-> <<>>, handled |-> <<>>, line |-> <<>>]
    /\ UNCHANGED <<regVars, lifeVars, phase, fifos, fs, tasks, saveFile, config, locks, now>>

\* The caller changes the name of the Friend it holds: friend.Name = name
CallerEdit(name) ==
    /\ held # <<>>
    /\ friends' = [friends EXCEPT ![held[1].friendID].Name = name]
    /\ held' = <<[held[1] EXCEPT !.obtained.Name = name]>>
    /\ last' = [op |-> "edit", call |-> NoCall, steps |-> <<>>, writes |-> <<>>,
                created |-> FALSE, event |-> [friendID |-> held[1].friendID, kind |-> "none"],
                log |-> <<>>, handled |-> <<>>, line |-> name]
    /\ UNCHANGED <<friendsByID, tox, lifeVars, phase, fifos, fs, tasks, saveFile, config, locks, now>>

InitSnapshot == GateStart({3661})

NextSnapshot ==
    \/ \E order \in Orders(DOMAIN tox.friends) :
           NewClient(order, [h \in DOMAIN tox.friends |-> NoFault])
    \/ \E friendID \in Handles : GetFriendCall(friendID)
    \/ \E name \in Names : CallerEdit(name)
    \/ \E name \in Names : FriendNameEvent(0, name, NoFault)
    \/ FriendMessageEvent(0, <<"h", "i">>, "normal", TRUE, TRUE)
    \/ Advance(3662)

SpecSnapshot == InitSnapshot /\ [][NextSnapshot]_vars

(***************************************************************************)
(* C21: a Friend value obtained through GetFriend, GetFriendByID or a      *)
(* handler's registry lookup is a snapshot: a later registry update of     *)
(* that friend (name, presence, last-seen) does not change the value the   *)
(* caller already holds, and a change the caller makes to its value does   *)
(* not change the record stored in the registry.                           *)
(***************************************************************************)
C21_FriendValueIsSnapshot ==
    [][/\ held' # <<>> => friends'[held'[1].friendID] = held'[1].obtained
       /\ last'.op = "edit" => friends' = friends]_vars


(***************************************************************************)
(* Pipes that go missing while the client runs.                            *)
(***************************************************************************)
\* the pipes that go missing: a global input pipe, a global output pipe and an input
\* pipe of the friend
LostPipes ==
    {GlobalFIFOPath(RequestIn), GlobalFIFOPath(RequestOut), FriendFIFOPath(Bob, TextIn)}

\* the pipes the polling tasks read
PolledPipes ==
    {GlobalPipe(RequestIn), GlobalPipe(Name), GlobalPipe(StatusMessage)}
        \cup {FriendPipe(friendID, name) : friendID \in DOMAIN tasks, name \in {TextIn, FileIn}}

\* somebody removes a pipe of the interface (rm, or a cleanup of the directory)
Unlink(path) ==
    /\ phase = "monitoring"
    /\ path \in DOMAIN fs
    /\ fs[path].type = "fifo"
    /\ fs' = [p \in DOMAIN fs \ {path} |-> fs[p]]
    /\ last' = [op |-> "unlink", call |-> NoCall, steps |-> <<>>, writes |-> <<>>,
                created |-> FALSE, event |-> NoEvent, log |-> <<>>, handled |-> <<>>,
                line |-> path]
    /\ UNCHANGED <<regVars, lifeVars, phase, fifos, tasks, saveFile, config, held, locks, now>>

\* one poll of a pipe that holds no data, or that is missing (OpenFile fails)
PollEmpty == \E pipe \in PolledPipes : Poll(pipe, <<>>, NoCut, AllOK)

InitMissing ==
    /\ GateStart({3661})
    /\ DOMAIN tox.friends = {0}
    /\ tox.friends[0].PublicKey = KeyOf(171, 205)

NextMissing ==
    \/ NewClient(<<0>>, [h \in {0} |-> NoFault])
    \/ StartFIFOManager(NoFault, TRUE)
    \/ \E path \in LostPipes : Unlink(path)
    \/ PollEmpty
    \/ FriendNameEvent(0, <<"A", "l">>, NoFault)

\* The polling tasks keep polling; nothing forces a friend to change its name.
FairMissing == WF_vars(PollEmpty)

SpecMissing == InitMissing /\ [][NextMissing]_vars /\ FairMissing

(***************************************************************************)
(* C22: if a pipe file of the interface goes missing from the filesystem   *)
(* while the client runs, the client eventually recreates it without being *)
(* restarted.                                                              *)
(***************************************************************************)
C22_MissingPipeRecreated ==
    \A path \in LostPipes :
        (phase = "monitoring" /\ path \in DOMAIN fifos /\ path \notin DOMAIN fs)
            ~> (path \in DOMAIN fs)


(***************************************************************************)
(* Incoming file offers: Client.handleFileReceive.  A uint64 is kept as    *)
(* its bit 63 (hi) and its lower bits (lo); the sizes of the model have    *)
(* bits 31 to 62 clear.                                                    *)
(***************************************************************************)
U64(hi, lo) == [hi |-> hi, lo |-> lo]

\* the sizes the engine reports: 0, 1, the default limit, one byte more, 2^63 and 2^63 + 1
FileSizes ==
    {U64(0, 0), U64(0, 1), U64(0, DefaultMaxFileSize), U64(0, DefaultMaxFileSize + 1),
     U64(1, 0), U64(1, 1)}

\* fmt's %d of a natural number
RECURSIVE DecimalOf(_)
DecimalOf(n) == IF n < 10 THEN <<Digits[n + 1]>> ELSE DecimalOf(n \div 10) \o <<Digits[(n % 10) + 1]>>

\* fmt's %d of a uint64: 2^63 is 9223372036854775808, and lo is below 192 when bit 63 is set
SprintfU64(u) ==
    IF u.hi = 0 THEN DecimalOf(u.lo)
    ELSE <<"9", "2", "2", "3", "3", "7", "2", "0", "3", "6", "8", "5", "4", "7", "7", "5">>
             \o DecimalOf(808 + u.lo)

\* the comparison done on the unsigned value: the variant C23 must tell from the code
Uint64Greater(u, limit) == u.hi = 1 \/ u.lo > limit

\* int64(fileSize) > limit for a limit above 0: the conversion keeps the bits, so a size
\* with bit 63 set is a negative number
Int64Greater(u, limit) == IF u.hi = 1 THEN FALSE ELSE u.lo > limit

\* FIFOManager.WriteFriendFileOut(friendID, fileInfo)
WriteFriendFileOut(w, friendID, fileInfo, openOK, writeOK) ==
    writeFIFO(w, FriendFIFOPath(friendID, FileOut), fileInfo, openOK, writeOK)

\* Client.handleFileReceive(friendID, fileNumber, kind, fileSize, filename)
handleFileReceive(w, friendID, fileSize, filename, openOK, writeOK) ==
    IF friendID \notin DOMAIN w.friends THEN Log(w, "unknown friend")
    ELSE IF w.config.MaxFileSize > 0 /\ Int64Greater(fileSize, w.config.MaxFileSize)
    THEN Log(w, "file too large")
    ELSE LET friendIDStr == EncodeToString(w.friends[friendID].PublicKey)
             fileInfo == filename \o <<" ">> \o SprintfU64(fileSize)
             w1 == WriteFriendFileOut(w, friendIDStr, fileInfo, openOK, writeOK)
         IN IF w1.err THEN Log([w1 EXCEPT !.err = FALSE], "write failed") ELSE w1

FileName == <<"a", ".", "t", "x", "t">>

\* tox.OnFileRecv: the friend friendID offers a file; openOK: file_out has a reader
FileRecvEvent(friendID, fileSize, filename, openOK) ==
    /\ phase # "init"
    /\ LET w == [World EXCEPT !.event = [friendID |-> friendID, kind |-> "file",
                                         fileSize |-> fileSize, filename |-> filename,
                                         reader |-> openOK]]
       IN Commit(Deliver("FileRecv", w,
                         handleFileReceive(w, friendID, fileSize, filename, openOK, TRUE)),
                 "file", filename)
    /\ UNCHANGED <<friendsByID, lifeVars, phase, now>>

InitFileOffer == GateStartWith({3661}, {DefaultMaxFileSize, 0}, <<>>)

NextFileOffer ==
    \/ \E order \in Orders(DOMAIN tox.friends) :
           NewClient(order, [h \in DOMAIN tox.friends |-> NoFault])
    \/ \E friendID \in Handles, fileSize \in FileSizes, openOK \in BOOLEAN :
           FileRecvEvent(friendID, fileSize, FileName, openOK)

SpecFileOffer == InitFileOffer /\ [][NextFileOffer]_vars

(***************************************************************************)
(* C23: an incoming file offer whose size exceeds the configured           *)
(* max_file_size (when that value is greater than 0) is never announced on *)
(* the friend's file_out pipe, for every 64-bit unsigned size including    *)
(* sizes of 2^63 and above; an offer within the limit from a known friend  *)
(* writes exactly one line "<filename> <size>" to file_out (when the pipe  *)
(* has a reader).                                                          *)
(***************************************************************************)
C23_OversizedOfferNotAnnounced ==
    [][last'.op = "file" =>
         LET e == last'.event
             over == config.MaxFileSize > 0
                        /\ (e.fileSize.hi = 1 \/ e.fileSize.lo > config.MaxFileSize)
         IN /\ over => last'.writes = <<>>
            /\ (~over /\ e.friendID \in DOMAIN friends /\ e.reader) =>
                   last'.writes =
                       <<[path |-> FriendFIFOPath(
                                       EncodeToString(friends[e.friendID].PublicKey), FileOut),
                          data |-> e.filename \o <<" ">> \o SprintfU64(e.fileSize)
                                       \o <<"\n">>]>>
       ]_vars


(***************************************************************************)
(* Permissions of the layout.                                              *)
(***************************************************************************)
\* the file mode creation masks of the process: 000, 022 (the usual one) and 077
Umasks == {0, 18, 63}

\* FIFOManager.Run up to the start of the polling, in a process with the mask umask
StartFIFOManagerUnder(umask, fault, idOK) ==
    /\ phase = "constructed"
    /\ LET w == createGlobalFIFOs([World EXCEPT !.umask = umask], fault, idOK)
       IN /\ phase' = IF w.err THEN "failed" ELSE "monitoring"
          /\ Commit(w, "Run", <<>>)
    /\ UNCHANGED <<friendsByID, lifeVars, now>>

InitModes == GateStart({3661})

NextModes ==
    \/ \E order \in Orders(DOMAIN tox.friends),
          faults \in [DOMAIN tox.friends -> {NoFault, [at |-> 2, call |-> "chmod"]}] :
           NewClient(order, faults)
    \/ \E umask \in Umasks,
          fault \in {NoFault, [at |-> 3, call |-> "mkfifo"], [at |-> 1, call |-> "chmod"]},
          idOK \in BOOLEAN :
           StartFIFOManagerUnder(umask, fault, idOK)

SpecModes == InitModes /\ [][NextModes]_vars

\* the permission bits of mode for group and others
GroupOther(mode) == mode % 64

(***************************************************************************)
(* C24: every directory the gateway creates has mode 0700 and every pipe   *)
(* it creates has mode 0600, for the global set and for each friend, and   *)
(* no object the gateway creates in the layout (including the identity     *)
(* file) carries a permission bit for group or others.                     *)
(***************************************************************************)
C24_OwnerOnlyLayout ==
    \A path \in DOMAIN fs \ {ConfigDir} :
        /\ fs[path].type = "dir" => fs[path].mode = DirPerm
        /\ (fs[path].type = "fifo" /\ path \in DOMAIN fifos) => fs[path].mode = FIFOPermInput
        /\ GroupOther(fs[path].mode) = 0


(***************************************************************************)
(* Configuration round trip (config.go Save, Load)                         *)
(***************************************************************************)
ConfigNames == {<<"T", "e", "s", "t">>, <<"A", "\"", "<">>, <<"C3", "A9">>,
                <<"\\", "n">>, <<"A", "FF">>, <<"C3">>}
ConfigStatuses == {<<"T", "e", "s", "t", "i", "n", "g">>, <<"&", "\t">>, <<"A9", "l">>}

\* cfg.Save() of a configuration with the given fields in ConfigDir
SaveConfig(name, status, debug) ==
    /\ LET cfg == [Name |-> name, StatusMessage |-> status, Debug |-> debug,
                   MaxFileSize |-> config.MaxFileSize]
       IN config' = [Name |-> cfg.Name, StatusMessage |-> cfg.StatusMessage,
                     Debug |-> cfg.Debug, MaxFileSize |-> cfg.MaxFileSize,
                     file |-> MarshalIndent(cfg)]
    /\ last' = [last EXCEPT !.op = "Save"]
    /\ UNCHANGED <<regVars, lifeVars, phase, fifos, fs, tasks, saveFile, held, locks, now>>

\* config.Load(ConfigDir): the configuration of the file replaces the one in memory
LoadConfig ==
    /\ config' = LoadFile(config.file)
    /\ last' = [last EXCEPT !.op = "Load"]
    /\ UNCHANGED <<regVars, lifeVars, phase, fifos, fs, tasks, saveFile, held, locks, now>>

InitConfig == GateStart({3661})

NextConfig ==
    \/ \E name \in ConfigNames, status \in ConfigStatuses, debug \in BOOLEAN :
           SaveConfig(name, status, debug)
    \/ LoadConfig

SpecConfig == InitConfig /\ [][NextConfig]_vars

(***************************************************************************)
(* C25: saving a configuration and then loading from the same directory    *)
(* yields a configuration with the same display name, status text and      *)
(* debug flag as the one saved.                                            *)
(***************************************************************************)
C25_SaveLoadRoundTrip ==
    [][(last.op = "Save" /\ last'.op = "Load") =>
           /\ config'.Name = config.Name
           /\ config'.StatusMessage = config.StatusMessage
           /\ config'.Debug = config.Debug]_vars


(***************************************************************************)
(* Paths below the configuration directory (config.go 232-245)             *)
(***************************************************************************)
\* path/filepath Clean for paths without "." and ".." elements: a run of separators is
\* one separator, and a separator at the end is dropped unless the path is the root
RECURSIVE Clean(_)
Clean(path) ==
    IF Len(path) <= 1 THEN path
    ELSE IF path[1] = "/" /\ path[2] = "/" THEN Clean(Tail(path))
    ELSE IF Len(path) = 2 /\ path[2] = "/" THEN <<path[1]>>
    ELSE <<path[1]>> \o Clean(Tail(path))

\* path/filepath Join: the elements that are not empty, with a separator between them,
\* cleaned
RECURSIVE Separated(_)
Separated(elems) ==
    IF elems = <<>> THEN <<>>
    ELSE IF Head(elems) = <<>> THEN Separated(Tail(elems))
    ELSE IF Separated(Tail(elems)) = <<>> THEN Head(elems)
    ELSE Head(elems) \o <<"/">> \o Separated(Tail(elems))

filepath_Join(elems) == Clean(Separated(elems))

\* Config.FriendDir, Config.GlobalFIFOPath and Config.FriendFIFOPath of a configuration c
Config_FriendDir(c, friendID) == filepath_Join(<<c.ConfigDir, friendID>>)
Config_GlobalFIFOPath(c, name) ==
    filepath_Join(<<c.ConfigDir, <<"c", "l", "i", "e", "n", "t">>, name>>)
Config_FriendFIFOPath(c, friendID, fifoName) ==
    filepath_Join(<<Config_FriendDir(c, friendID), fifoName>>)

ConfigDirs == {<<"/", "t", "/", "c">>, <<"/", "t", "/">>, <<"r">>, <<"/">>}
PathFriendIDs == {<<"1", "2", "E", "F">>, <<"A", "B">>, <<"0">>}
PathFIFONames == {<<"r", "e", "q", "u", "e", "s", "t", "_", "i", "n">>,
                  <<"t", "e", "x", "t", "_", "i", "n">>, <<"i", "d">>}

\* a configuration in one of the directories, and the arguments of the three calls
InitPaths ==
    /\ friends = <<>>
    /\ friendsByID = <<>>
    /\ tox = [friends |-> <<>>]
    /\ LifeIdle
    /\ phase = "init"
    /\ fifos = <<>>
    /\ fs = <<>>
    /\ tasks = <<>>
    /\ saveFile = "none"
    /\ config \in [ConfigDir : ConfigDirs]
    /\ held = <<>>
    /\ locks = NoLocks
    /\ now = 0
    /\ last \in [op : {"none"}, friendID : PathFriendIDs, name : PathFIFONames,
                 result : {<<>>}]

PathCall(op, result) ==
    /\ last' = [last EXCEPT !.op = op, !.result = result]
    /\ UNCHANGED <<regVars, lifeVars, phase, fifos, fs, tasks, saveFile, config, held, locks, now>>

NextPaths ==
    \/ PathCall("FriendDir", Config_FriendDir(config, last.friendID))
    \/ PathCall("GlobalFIFOPath", Config_GlobalFIFOPath(config, last.name))
    \/ PathCall("FriendFIFOPath", Config_FriendFIFOPath(config, last.friendID, last.name))

SpecPaths == InitPaths /\ [][NextPaths]_vars

(***************************************************************************)
(* C26: for every configuration directory D, friend id F and pipe name N,  *)
(* GlobalFIFOPath(N) is D joined with N, FriendDir(F) is D joined with F,   *)
(* and FriendFIFOPath(F, N) is FriendDir(F) joined with N.                 *)
(***************************************************************************)
C26_PathsAreJoins ==
    /\ last.op = "GlobalFIFOPath" =>
           last.result = filepath_Join(<<config.ConfigDir, last.name>>)
    /\ last.op = "FriendDir" =>
           last.result = filepath_Join(<<config.ConfigDir, last.friendID>>)
    /\ last.op = "FriendFIFOPath" =>
           last.result = filepath_Join(<<filepath_Join(<<config.ConfigDir, last.friendID>>),
                                         last.name>>)


(***************************************************************************)
(* C27: during Shutdown the engine is released only after every loop,      *)
(* including the engine iteration loop, has stopped and after the final    *)
(* persistence flush has finished, so that no engine operation (iterate,   *)
(* serialize state, send) starts after the engine has been released: in    *)
(* every state in which the engine has been released, no loop is at a      *)
(* point from which it calls the engine, and a Shutdown caller has flushed. *)
(***************************************************************************)
C27_EngineReleasedLast ==
    toxKilled =>
        /\ LoopsExited
        /\ \E s \in Callers : "flush" \in effects[s]


(***************************************************************************)
(* Lock discipline of the part_001 client and its FIFO manager             *)
(* (handlers.go, fifo.go, part_001): each handler is the sequence of its   *)
(* lock operations, accesses to the registry and to the descriptor table,  *)
(* filesystem operations and engine calls, in program order; a goroutine   *)
(* takes one of them per step.  The registry holds one friend, and the     *)
(* accesses to a record or a descriptor are those to that friend's.        *)
(***************************************************************************)
Do(kind, on) == [kind |-> kind, on |-> on]

\* the lock that guards each piece of shared data
Guard(datum) ==
    IF datum \in {"friends", "friend.Name", "friend.Status", "friend.PublicKey",
                  "friend.LastSeen"}
    THEN "friendsMu" ELSE "fifosMu"

\* FIFOManager.writeFIFO, fifo.go 352-379
writeFIFO_Steps ==
    <<Do("RLock", "fifosMu"), Do("read", "fifos"), Do("RUnlock", "fifosMu"),
      Do("read", "fifo.IsOutput"), Do("io", "open"), Do("io", "write"),
      Do("write", "fifo.LastUsed")>>

\* FIFOManager.createFIFO, fifo.go 180-231; no descriptor has an open file (nothing
\* assigns FIFO.File), so the Close of line 186 is never reached
createFIFO_Steps ==
    <<Do("Lock", "fifosMu"), Do("read", "fifos"), Do("write", "fifos"),
      Do("Unlock", "fifosMu"),
      Do("io", "remove"), Do("io", "mkfifo"), Do("io", "chmod"),
      Do("Lock", "fifosMu"), Do("write", "fifos"), Do("Unlock", "fifosMu")>>

\* the steps of a loop that runs body n times
RECURSIVE Loop(_, _)
Loop(n, body) == IF n = 0 THEN <<>> ELSE body \o Loop(n - 1, body)

\* FIFOManager.CreateFriendFIFOs, fifo.go 144-177: the directory, one createFIFO per
\* pipe of friendFIFOs, and the start of the polling task
CreateFriendFIFOs_Steps ==
    <<Do("io", "mkdir")>> \o Loop(Len(friendFIFOs), createFIFO_Steps) \o <<Do("go", "monitor")>>

\* Client.handleFriendMessage, handlers.go 29-62
handleFriendMessage_Steps ==
    <<Do("RLock", "friendsMu"), Do("read", "friends"), Do("RUnlock", "friendsMu"),
      Do("write", "friend.LastSeen"), Do("read", "friend.Name"),
      Do("read", "friend.PublicKey")>> \o writeFIFO_Steps

\* Client.handleFriendNameChange with the pipes created before the registry lock is
\* released: the variant C30 must tell from the code
handleFriendNameChange_UnderLock ==
    <<Do("Lock", "friendsMu"), Do("read", "friends"), Do("write", "friend.Name"),
      Do("read", "friend.PublicKey"), Do("call", "GetFriends"),
      Do("write", "friend.PublicKey")>>
    \o CreateFriendFIFOs_Steps \o <<Do("Unlock", "friendsMu")>>

\* Client.handleFriendNameChange, handlers.go 65-92
handleFriendNameChange_Steps ==
    <<Do("Lock", "friendsMu"), Do("read", "friends"), Do("write", "friend.Name"),
      Do("read", "friend.PublicKey"), Do("call", "GetFriends"),
      Do("write", "friend.PublicKey"), Do("Unlock", "friendsMu"),
      Do("read", "friend.PublicKey")>> \o CreateFriendFIFOs_Steps

\* Client.handleFriendStatusChange, handlers.go 95-124
handleFriendStatusChange_Steps ==
    <<Do("Lock", "friendsMu"), Do("read", "friends"), Do("write", "friend.Status"),
      Do("Unlock", "friendsMu"), Do("read", "friend.PublicKey")>> \o writeFIFO_Steps

\* Client.AcceptFriendRequest, part_001 520-554, as handleRequestIn calls it
AcceptFriendRequest_Steps ==
    <<Do("call", "AddFriendByPublicKey"), Do("Lock", "friendsMu"), Do("write", "friends"),
      Do("Unlock", "friendsMu")>> \o CreateFriendFIFOs_Steps
    \o <<Do("call", "GetSavedata"), Do("io", "writefile")>>

\* FIFOManager.handleFriendTextIn, fifo.go 439-491, after readFIFO has read a line
handleFriendTextIn_Steps ==
    <<Do("io", "open"), Do("io", "read"),
      Do("RLock", "friendsMu"), Do("read", "friends"), Do("read", "friend.PublicKey"),
      Do("RUnlock", "friendsMu"), Do("call", "SendFriendMessage")>>

\* Client.loadFriends, part_001 307-335, for the one persisted friend
loadFriends_Steps ==
    <<Do("call", "GetFriends"), Do("Lock", "friendsMu"), Do("write", "friends"),
      Do("Unlock", "friendsMu")>> \o CreateFriendFIFOs_Steps

\* FIFOManager.cleanupUnusedFIFOs, fifo.go 613-627
cleanupUnusedFIFOs_Steps ==
    <<Do("Lock", "fifosMu"), Do("read", "fifos"), Do("read", "fifo.LastUsed"),
      Do("write", "fifos"), Do("Unlock", "fifosMu")>>

Program(run) ==
    CASE run = "handleFriendMessage" -> handleFriendMessage_Steps
      [] run = "handleFriendNameChange" -> handleFriendNameChange_Steps
      [] run = "handleFriendStatusChange" -> handleFriendStatusChange_Steps
      [] run = "AcceptFriendRequest" -> AcceptFriendRequest_Steps
      [] run = "handleFriendTextIn" -> handleFriendTextIn_Steps
      [] run = "cleanupUnusedFIFOs" -> cleanupUnusedFIFOs_Steps
      [] run = "loadFriends" -> loadFriends_Steps

\* the goroutines and what each of them runs: main loads the friends in New, before
\* the others exist; then the engine iteration loop delivers the callbacks,
\* monitorGlobalFIFOs reads request_in, monitorFriendFIFOs reads text_in, and
\* periodicCleanup sweeps
Runs ==
    [friend |-> {"handleFriendTextIn"},
     main |-> {"loadFriends"},
     engine |-> {"handleFriendMessage", "handleFriendNameChange", "handleFriendStatusChange"},
     global |-> {"AcceptFriendRequest"},
     cleanup |-> {"cleanupUnusedFIFOs"}]
LockGoroutines == DOMAIN Runs

Idle == [at |-> 0, run |-> "idle"]
Over == [at |-> 0, run |-> "over"]
Busy(g) == pc[g] \notin {Idle, Over}
Current(g) == Program(pc[g].run)[pc[g].at]
At(g, kinds) == Busy(g) /\ Current(g).kind \in kinds
Holds(g, lock) == locks[lock].w = g \/ g \in locks[lock].r

\* the goroutine moves to its next step, or returns
Proceed(g) ==
    pc' = [pc EXCEPT ![g] = IF @.at < Len(Program(@.run)) THEN [@ EXCEPT !.at = @ + 1]
                             ELSE IF g = "main" THEN Over ELSE Idle]

lockRest == <<regVars, mon, mu, running, shutdownClosed, ctxDone, fmCtxDone, wg, fmwg,
              toxKilled, panicked, effects, phase, fifos, fs, tasks, saveFile, config,
              held, now, last>>

\* a callback is delivered, a line is read, the cleanup ticker fires
Begin(g, run) ==
    /\ pc[g] = Idle
    /\ g # "main" => pc["main"] = Over
    /\ pc' = [pc EXCEPT ![g] = [at |-> 1, run |-> run]]
    /\ UNCHANGED <<locks, lockRest>>

\* sync.RWMutex Lock and RLock: Lock waits until there is no holder, RLock until there
\* is no writer
LockStep(g) ==
    /\ At(g, {"Lock", "RLock"})
    /\ LET l == Current(g).on
       IN IF Current(g).kind = "Lock"
          THEN /\ locks[l].w = "free" /\ locks[l].r = {}
               /\ locks' = [locks EXCEPT ![l].w = g]
          ELSE /\ locks[l].w = "free"
               /\ locks' = [locks EXCEPT ![l].r = @ \cup {g}]
    /\ Proceed(g)
    /\ UNCHANGED lockRest

\* sync.RWMutex Unlock and RUnlock
UnlockStep(g) ==
    /\ At(g, {"Unlock", "RUnlock"})
    /\ LET l == Current(g).on
       IN IF Current(g).kind = "Unlock"
          THEN locks' = [locks EXCEPT ![l].w = "free"]
          ELSE locks' = [locks EXCEPT ![l].r = @ \ {g}]
    /\ Proceed(g)
    /\ UNCHANGED lockRest

\* a read or a write of shared data
AccessStep(g) ==
    /\ At(g, {"read", "write"})
    /\ Proceed(g)
    /\ UNCHANGED <<locks, lockRest>>

\* a filesystem operation, an engine call, the start of a goroutine
OutsideStep(g) ==
    /\ At(g, {"io", "call", "go"})
    /\ Proceed(g)
    /\ UNCHANGED <<locks, lockRest>>

InitLocks ==
    /\ RegIdle
    /\ GateIdle
    /\ LifeRest
    /\ pc = [g \in LockGoroutines |-> Idle]

NextLocks ==
    \/ \E g \in LockGoroutines : \E run \in Runs[g] : Begin(g, run)
    \/ \E g \in LockGoroutines : LockStep(g)
    \/ \E g \in LockGoroutines : UnlockStep(g)
    \/ \E g \in LockGoroutines : AccessStep(g)
    \/ \E g \in LockGoroutines : OutsideStep(g)

SpecLocks == InitLocks /\ [][NextLocks]_vars

\* two goroutines are at accesses to the same data, one of them a write
Overlap(g1, g2) ==
    /\ g1 # g2
    /\ At(g1, {"write"}) /\ At(g2, {"read", "write"})
    /\ Current(g1).on = Current(g2).on

(***************************************************************************)
(* C28: in every interleaving of the loops, each write to the friends map, *)
(* to a field of a registered Friend record, to the descriptor table or to *)
(* a field of a registered descriptor (including its last-used time) is    *)
(* done while holding the corresponding write lock, so that no such write  *)
(* overlaps another access to the same data.                               *)
(***************************************************************************)
C28_WritesHoldWriteLock ==
    /\ \A g \in LockGoroutines :
           At(g, {"write"}) => locks[Guard(Current(g).on)].w = g
    /\ \A g1, g2 \in LockGoroutines : ~Overlap(g1, g2)


(***************************************************************************)
(* The two indices of src/client/client.go under concurrent callers: one   *)
(* step per lock operation and per access to an index.  Run loads the      *)
(* friends (client.go 123) after it has started the FIFO manager, a caller *)
(* adds and removes friends, a reader looks friends up.                    *)
(***************************************************************************)
NoObservation == [op |-> "none", found |-> FALSE, whole |-> TRUE]
Resting == [op |-> "idle", at |-> "idle"]

indexRest == <<tox, mon, mu, running, shutdownClosed, ctxDone, fmCtxDone, wg, fmwg,
               toxKilled, panicked, effects, phase, fifos, fs, tasks, saveFile, config,
               held, now>>

\* the Friend that loadFriends builds for the engine's friend n, client.go 287-317
LoadedFriend(n) ==
    [PublicKey |-> SprintfX(tox.friends[n].PublicKey), Name |-> tox.friends[n].Name,
     Number |-> n]

\* Client.Run, client.go 123: c.loadFriends(); friendNumbers := c.tox.SelfGetFriendList()
LoadStart ==
    /\ pc["load"] = Resting
    /\ pc' = [pc EXCEPT !["load"] = [todo |-> DOMAIN tox.friends, op |-> "loadFriends",
                                     at |-> "record"]]
    /\ UNCHANGED <<friends, friendsByID, locks, last, indexRest>>

\* Client.loadFriends, client.go 319: c.friends[friendNum] = friend, with no lock held;
\* after the last friend the function returns
LoadRecord ==
    /\ pc["load"].at = "record"
    /\ IF pc["load"].todo = {}
       THEN /\ pc' = [pc EXCEPT !["load"] = [op |-> "loadFriends", at |-> "done"]]
            /\ UNCHANGED friends
       ELSE LET n == CHOOSE x \in pc["load"].todo : \A y \in pc["load"].todo : x <= y
            IN /\ friends' = (n :> LoadedFriend(n)) @@ friends
               /\ pc' = [pc EXCEPT !["load"].at = "key"]
    /\ UNCHANGED <<friendsByID, locks, last, indexRest>>

\* Client.loadFriends, client.go 320: c.friendsByID[friend.PublicKey] = friendNum
LoadKey ==
    /\ pc["load"].at = "key"
    /\ LET n == CHOOSE x \in pc["load"].todo : \A y \in pc["load"].todo : x <= y
       IN /\ friendsByID' = (LoadedFriend(n).PublicKey :> n) @@ friendsByID
          /\ pc' = [pc EXCEPT !["load"].at = "record", !["load"].todo = @ \ {n}]
    /\ UNCHANGED <<friends, locks, last, indexRest>>

\* Client.AddFriend, client.go 369-370, and Client.RemoveFriend, client.go 377-378:
\* c.mu.Lock()
WriteLock(op, arg) ==
    /\ pc["write"] = Resting
    /\ locks.mu.w = "free" /\ locks.mu.r = {}
    /\ locks' = [locks EXCEPT !.mu.w = "write"]
    /\ pc' = [pc EXCEPT !["write"] = [op |-> op, at |-> "first", arg |-> arg]]
    /\ UNCHANGED <<friends, friendsByID, last, indexRest>>

\* Client.AddFriend, client.go 371: c.friends[friend.Number] = friend
AddRecord ==
    /\ pc["write"].op = "AddFriend" /\ pc["write"].at = "first"
    /\ friends' = (pc["write"].arg.Number :> pc["write"].arg) @@ friends
    /\ pc' = [pc EXCEPT !["write"].at = "second"]
    /\ UNCHANGED <<friendsByID, locks, last, indexRest>>

\* Client.AddFriend, client.go 372: c.friendsByID[friend.PublicKey] = friend.Number
AddKey ==
    /\ pc["write"].op = "AddFriend" /\ pc["write"].at = "second"
    /\ friendsByID' = (pc["write"].arg.PublicKey :> pc["write"].arg.Number) @@ friendsByID
    /\ pc' = [pc EXCEPT !["write"].at = "unlock"]
    /\ UNCHANGED <<friends, locks, last, indexRest>>

\* Client.RemoveFriend, client.go 379-380: the lookup, and delete(c.friendsByID, ...)
RemoveKey ==
    /\ pc["write"].op = "RemoveFriend" /\ pc["write"].at = "first"
    /\ IF pc["write"].arg \in DOMAIN friends
       THEN /\ friendsByID' = [k \in DOMAIN friendsByID \ {friends[pc["write"].arg].PublicKey}
                                  |-> friendsByID[k]]
            /\ pc' = [pc EXCEPT !["write"].at = "second"]
       ELSE /\ pc' = [pc EXCEPT !["write"].at = "unlock"]
            /\ UNCHANGED friendsByID
    /\ UNCHANGED <<friends, locks, last, indexRest>>

\* Client.RemoveFriend, client.go 381: delete(c.friends, friendNum)
RemoveRecord ==
    /\ pc["write"].op = "RemoveFriend" /\ pc["write"].at = "second"
    /\ friends' = [h \in DOMAIN friends \ {pc["write"].arg} |-> friends[h]]
    /\ pc' = [pc EXCEPT !["write"].at = "unlock"]
    /\ UNCHANGED <<friendsByID, locks, last, indexRest>>

\* deferred c.mu.Unlock()
WriteUnlock ==
    /\ pc["write"].at = "unlock"
    /\ locks' = [locks EXCEPT !.mu.w = "free"]
    /\ pc' = [pc EXCEPT !["write"] = Resting]
    /\ UNCHANGED <<friends, friendsByID, last, indexRest>>

\* Client.GetFriend, client.go 352-353, and Client.GetFriendByID, client.go 359-360:
\* c.mu.RLock()
ReadLock(op, arg) ==
    /\ pc["read"] = Resting
    /\ locks.mu.w = "free"
    /\ locks' = [locks EXCEPT !.mu.r = {"read"}]
    /\ pc' = [pc EXCEPT !["read"] = [op |-> op, at |-> "first", arg |-> arg]]
    /\ UNCHANGED <<friends, friendsByID, last, indexRest>>

\* Client.GetFriend, client.go 354: return c.friends[friendNum].  whole tells whether
\* the key of the record returned is in the key index.
GetFriendRead ==
    /\ pc["read"].op = "GetFriend" /\ pc["read"].at = "first"
    /\ LET n == pc["read"].arg
       IN last' = [op |-> "GetFriend", found |-> n \in DOMAIN friends,
                   whole |-> n \in DOMAIN friends => friends[n].PublicKey \in DOMAIN friendsByID]
    /\ pc' = [pc EXCEPT !["read"].at = "unlock"]
    /\ UNCHANGED <<friends, friendsByID, locks, indexRest>>

\* Client.GetFriendByID, client.go 361: friendNum, exists := c.friendsByID[publicKey]
ByIDKey ==
    /\ pc["read"].op = "GetFriendByID" /\ pc["read"].at = "first"
    /\ IF pc["read"].arg \in DOMAIN friendsByID
       THEN pc' = [pc EXCEPT !["read"].at = "second",
                             !["read"].arg = friendsByID[pc["read"].arg]]
       ELSE pc' = [pc EXCEPT !["read"].at = "unlock"]
    /\ last' = [op |-> "GetFriendByID", found |-> pc["read"].arg \in DOMAIN friendsByID,
                whole |-> TRUE]
    /\ UNCHANGED <<friends, friendsByID, locks, indexRest>>

\* Client.GetFriendByID, client.go 362: return c.friends[friendNum].  whole tells
\* whether the handle found in the key index has a record.
ByIDRecord ==
    /\ pc["read"].op = "GetFriendByID" /\ pc["read"].at = "second"
    /\ last' = [op |-> "GetFriendByID", found |-> TRUE,
                whole |-> pc["read"].arg \in DOMAIN friends]
    /\ pc' = [pc EXCEPT !["read"].at = "unlock"]
    /\ UNCHANGED <<friends, friendsByID, locks, indexRest>>

\* deferred c.mu.RUnlock()
ReadUnlock ==
    /\ pc["read"].at = "unlock"
    /\ locks' = [locks EXCEPT !.mu.r = {}]
    /\ pc' = [pc EXCEPT !["read"] = Resting]
    /\ UNCHANGED <<friends, friendsByID, last, indexRest>>

\* a client whose engine holds the persisted friends, before Run
InitIndex ==
    /\ friends = <<>>
    /\ friendsByID = <<>>
    /\ tox \in [friends : {t \in ToxFriendTables :
                                \A h \in DOMAIN t : t[h].Name = <<"B","o","b">>}]
    /\ LifeRest
    /\ GateIdle
    /\ pc = [g \in {"load", "write", "read"} |-> Resting]

NextIndex ==
    \/ LoadStart
    \/ LoadRecord
    \/ LoadKey
    \/ \E friend \in {f \in FriendValues : f.Name = <<"A","l">>} : WriteLock("AddFriend", friend)
    \/ \E friendNum \in Handles : WriteLock("RemoveFriend", friendNum)
    \/ AddRecord
    \/ AddKey
    \/ RemoveKey
    \/ RemoveRecord
    \/ WriteUnlock
    \/ \E friendNum \in Handles : ReadLock("GetFriend", friendNum)
    \/ \E publicKey \in KeyStrings : ReadLock("GetFriendByID", publicKey)
    \/ GetFriendRead
    \/ ByIDKey
    \/ ByIDRecord
    \/ ReadUnlock

SpecIndex == InitIndex /\ [][NextIndex]_vars

(***************************************************************************)
(* C29: in every interleaving of registry readers with registry writers    *)
(* (AddFriend, RemoveFriend, friend load at startup, request acceptance),  *)
(* a reader never observes a state in which one index has been updated and *)
(* the other has not: GetFriendByID never finds a key in the key index     *)
(* whose handle has no record, and GetFriend never returns a record whose  *)
(* key is missing from the key index.                                      *)
(***************************************************************************)
C29_ReadersSeeBothIndices ==
    last.op \in {"GetFriend", "GetFriendByID"} => (last.found => last.whole)

NextOrder ==
    \/ NextCreate
    \/ \E t \in Moments : Advance(t)

SpecOrder == InitCreate /\ [][NextOrder]_vars

\* the statements of one call, in program order; every system call can end the call
StepOrder ==
    {<<"idle", "remove">>, <<"remove", "mkfifo">>, <<"mkfifo", "chmod">>,
     <<"chmod", "register">>, <<"register", "idle">>,
     <<"remove", "idle">>, <<"mkfifo", "idle">>, <<"chmod", "idle">>}

\* goroutine g returns an error in this step
FailedReturn(g) == pc[g] \in {"remove", "mkfifo", "chmod"} /\ pc'[g] = "idle"

(***************************************************************************)
(* C31: each createFIFO call performs its steps in the order: release and  *)
(* unregister the descriptor registered for the path, remove the           *)
(* filesystem object, create the pipe, register a new descriptor with the  *)
(* current time.  A call whose removal or pipe creation (or permission     *)
(* change) fails returns an error and registers nothing itself: then no    *)
(* descriptor is registered for the path, unless another call on the same  *)
(* path has overlapped and registered one.                                 *)
(***************************************************************************)
C31_CreateOrder ==
    [][\A g \in Creators :
           pc'[g] # pc[g] =>
               /\ <<pc[g], pc'[g]>> \in StepOrder
               /\ pc[g] = "idle" => CreatePath \notin DOMAIN fifos' /\ fs' = fs
               /\ pc[g] = "remove" /\ pc'[g] = "mkfifo" =>
                      CreatePath \notin DOMAIN fs' /\ fifos' = fifos
               /\ pc[g] = "mkfifo" /\ pc'[g] = "chmod" =>
                      /\ CreatePath \notin DOMAIN fs
                      /\ CreatePath \in DOMAIN fs' /\ fs'[CreatePath].type = "fifo"
                      /\ fifos' = fifos
               /\ pc[g] = "chmod" => fifos' = fifos
               /\ pc[g] = "register" =>
                      /\ CreatePath \in DOMAIN fifos'
                      /\ fifos'[CreatePath].LastUsed = now
                      /\ fs' = fs
               /\ FailedReturn(g) =>
                      /\ fifos' = fifos /\ fs' = fs
                      /\ ~last.overlapped => CreatePath \notin DOMAIN fifos']_vars

\* A call that met no other call has replaced a descriptor and returned an error, after
\* the clock had advanced: the path has no descriptor.
C31_Witness ==
    /\ \A g \in Creators : pc[g] = "idle"
    /\ last.op = "createFIFO"
    /\ ~last.overlapped
    /\ last.failed > 0
    /\ last.replaced # {}
    /\ now > 3661
    /\ CreatePath \notin DOMAIN fifos

\* C31 as stated: whenever the removal or the pipe creation of a call fails, no
\* descriptor is registered for the path when the call returns.
C31_FailedCallLeavesNoDescriptor ==
    [][\A g \in Creators :
           (pc[g] \in {"remove", "mkfifo"} /\ pc'[g] = "idle") =>
               CreatePath \notin DOMAIN fifos']_vars

(***************************************************************************)
(* C32: a friend's directory, pipes and polling task are created once,     *)
(* when its public key first becomes known: a name event for a friend      *)
(* whose directory already exists neither removes or recreates its pipes   *)
(* nor starts another polling task, so at any time each friend input pipe  *)
(* is polled by at most one task.                                          *)
(***************************************************************************)
C32_PipesCreatedOnce ==
    /\ [](\A id \in DOMAIN tasks : tasks[id] <= 1)
    /\ [][\A f \in DOMAIN friends :
              (/\ last'.op = "name"
               /\ last'.event.friendID = f
               /\ friends[f].PublicKey # ZeroKey
               /\ FriendDir(EncodeToString(friends[f].PublicKey)) \in DOMAIN fs)
              => /\ tasks' = tasks
                 /\ Count(last'.steps, "createFIFO") = 0]_vars

(***************************************************************************)
(* The writers of a friend's text_out pipe.  The engine keeps the message  *)
(* events of the friend in their order of arrival; c.tox.Iterate(), called *)
(* by the iteration loop of Run, delivers them one after the other to      *)
(* handleFriendMessage, whose steps are those of handleFriendMessage_Steps.*)
(* The cleanup task sweeps the descriptor table in between.  held[g] is    *)
(* the message the goroutine g is handling, last.written the messages      *)
(* whose lines are in the pipe, in the order of the writes.                *)
(***************************************************************************)
\* At most MaxMessages message events arrive.
MaxMessages == 3

\* one goroutine per message event: the variant C33 must tell from the code
Deliverers_PerEvent == {"run", "run2"}

\* the goroutines that call c.tox.Iterate(): the iteration loop of Run, part_001 373-386
Deliverers == {"run"}

WriteGoroutines == Deliverers \cup {"cleanup"}

TextOutPath == FriendFIFOPath(EncodeToString(KeyOf(171, 205)), TextOut)

InitWrites ==
    /\ friends = <<>>
    /\ friendsByID = <<>>
    /\ tox = [queue |-> <<>>, arrived |-> 0]
    /\ pc = [g \in WriteGoroutines |-> Idle]
    /\ LifeRest
    /\ phase = "monitoring"
    /\ fifos = (TextOutPath :> [Path |-> TextOutPath, Mode |-> FIFOPermOutput,
                                IsInput |-> FALSE, IsOutput |-> TRUE, File |-> "nil",
                                LastUsed |-> 3661])
    /\ fs = (TextOutPath :> [type |-> "fifo", mode |-> FIFOPermOutput])
    /\ tasks = <<>>
    /\ saveFile = "none"
    /\ config = "none"
    /\ held = [g \in Deliverers |-> 0]
    /\ locks = NoLocks
    /\ now = 3661
    /\ last = [op |-> "none", written |-> <<>>, delivered |-> <<>>, dropped |-> {}]

writeRest == <<friends, friendsByID, mon, mu, running, shutdownClosed, ctxDone, fmCtxDone,
               wg, fmwg, toxKilled, panicked, effects, phase, fs, tasks, saveFile, config, now>>

\* a message of the friend reaches the engine
MessageArrives ==
    /\ tox.arrived < MaxMessages
    /\ tox' = [queue |-> Append(tox.queue, tox.arrived + 1), arrived |-> tox.arrived + 1]
    /\ UNCHANGED <<pc, fifos, held, locks, last, writeRest>>

\* c.tox.Iterate() in goroutine g: the engine calls the message callback with its
\* oldest event
IterateDelivers(g) ==
    /\ pc[g] = Idle
    /\ tox.queue # <<>>
    /\ pc' = [pc EXCEPT ![g] = [at |-> 1, run |-> "handleFriendMessage"]]
    /\ held' = [held EXCEPT ![g] = Head(tox.queue)]
    /\ tox' = [tox EXCEPT !.queue = Tail(@)]
    /\ last' = [last EXCEPT !.op = "deliver", !.delivered = Append(@, Head(tox.queue))]
    /\ UNCHANGED <<fifos, locks, writeRest>>

\* the callback returns an error path: the line is not written
Dropped(g) ==
    /\ pc' = [pc EXCEPT ![g] = Idle]
    /\ last' = [last EXCEPT !.op = "drop", !.dropped = @ \cup {held[g]}]

\* a step of handleFriendMessage and of the writeFIFO it calls that is no lock
\* operation: writeFIFO returns when the descriptor is missing (fifo.go 357-359),
\* when the pipe cannot be opened (366-369) and when the write fails (373-375)
MessageStep(g, ok) ==
    /\ pc[g].run = "handleFriendMessage"
    /\ At(g, {"read", "write", "io"})
    /\ LET s == Current(g)
       IN IF s = Do("read", "fifos")
          THEN /\ IF TextOutPath \in DOMAIN fifos
                  THEN Proceed(g) /\ UNCHANGED last
                  ELSE Dropped(g)
               /\ UNCHANGED fifos
          ELSE IF s.kind = "io"
          THEN /\ IF ~ok \/ TextOutPath \notin DOMAIN fs
                  THEN Dropped(g)
                  ELSE /\ Proceed(g)
                       /\ IF s.on = "write"
                          THEN last' = [last EXCEPT !.op = "write",
                                                    !.written = Append(@, held[g])]
                          ELSE UNCHANGED last
               /\ UNCHANGED fifos
          ELSE /\ Proceed(g)
               /\ UNCHANGED last
               /\ fifos' = IF s = Do("write", "fifo.LastUsed") /\ TextOutPath \in DOMAIN fifos
                           THEN [fifos EXCEPT ![TextOutPath].LastUsed = now]
                           ELSE fifos
    /\ UNCHANGED <<tox, held, locks, writeRest>>

\* periodicCleanup: the ticker fires
SweepBegins ==
    /\ pc["cleanup"] = Idle
    /\ pc' = [pc EXCEPT !["cleanup"] = [at |-> 1, run |-> "cleanupUnusedFIFOs"]]
    /\ UNCHANGED <<tox, fifos, held, locks, last, writeRest>>

\* a step of cleanupUnusedFIFOs that is no lock operation; idle tells whether the
\* descriptor was last used more than 30 minutes ago
SweepStep(idle) ==
    /\ pc["cleanup"].run = "cleanupUnusedFIFOs"
    /\ At("cleanup", {"read", "write"})
    /\ fifos' = IF Current("cleanup") = Do("write", "fifos") /\ idle THEN <<>> ELSE fifos
    /\ Proceed("cleanup")
    /\ UNCHANGED <<tox, held, locks, last, writeRest>>

NextWrites ==
    \/ MessageArrives
    \/ \E g \in Deliverers : IterateDelivers(g)
    \/ \E g \in Deliverers, ok \in BOOLEAN : MessageStep(g, ok)
    \/ SweepBegins
    \/ \E idle \in BOOLEAN : SweepStep(idle)
    \/ \E g \in WriteGoroutines : LockStep(g)
    \/ \E g \in WriteGoroutines : UnlockStep(g)

SpecWrites == InitWrites /\ [][NextWrites]_vars

\* goroutine g has the pipe open for writing (fifo.go 366-378)
Writing(g) ==
    /\ Busy(g)
    /\ pc[g].run = "handleFriendMessage"
    /\ Current(g) \in {Do("io", "write"), Do("write", "fifo.LastUsed")}

\* the place of message m in the order of delivery
DeliveredAt(m) == CHOOSE i \in 1..Len(last.delivered) : last.delivered[i] = m

RunTickerPeriod == 50

\* The clock of the iteration loops stops at MaxClock milliseconds.
MaxClock == 400

\* the intervals the engine reports, in milliseconds
Intervals == {20, 50, 100}

IterationLoops == {"eventLoop", "run"}

InitCadence ==
    /\ friends = <<>>
    /\ friendsByID = <<>>
    /\ \E i \in Intervals : tox = [interval |-> i]
    /\ \E g \in IterationLoops : pc = [x \in IterationLoops |-> IF x = g THEN "start" ELSE "off"]
    /\ LifeRest
    /\ phase = "init"
    /\ fifos = <<>>
    /\ fs = <<>>
    /\ tasks = <<>>
    /\ saveFile = "none"
    /\ config = "none"
    /\ held = <<>>
    /\ locks = NoLocks
    /\ now = 0
    /\ last = [op |-> "none", loop |-> "none", waited |-> 0, iterations |-> 0]

cadenceRest == <<friends, friendsByID, mon, mu, running, shutdownClosed, ctxDone, fmCtxDone,
                 wg, fmwg, toxKilled, panicked, effects, phase, fifos, fs, tasks, saveFile,
                 config, locks>>

\* client.go 202: time.NewTicker(time.Duration(c.tox.IterationInterval()) * time.Millisecond)
EventLoopStart ==
    /\ pc["eventLoop"] = "start"
    /\ pc' = [pc EXCEPT !["eventLoop"] = "wait"]
    /\ held' = ("eventLoop" :> tox.interval)
    /\ UNCHANGED <<tox, now, last, cadenceRest>>

\* part_001 374: time.NewTicker(50 * time.Millisecond)
RunLoopStart ==
    /\ pc["run"] = "start"
    /\ pc' = [pc EXCEPT !["run"] = "wait"]
    /\ held' = ("run" :> RunTickerPeriod)
    /\ UNCHANGED <<tox, now, last, cadenceRest>>

\* case <-ticker.C: the loop has waited one period of its ticker
TickerFires(g) ==
    /\ pc[g] = "wait"
    /\ now + held[g] <= MaxClock
    /\ now' = now + held[g]
    /\ pc' = [pc EXCEPT ![g] = "iterate"]
    /\ last' = [last EXCEPT !.op = "wait", !.loop = g, !.waited = held[g]]
    /\ UNCHANGED <<tox, held, cadenceRest>>

\* client.go 210-217: c.tox.Iterate(), after which the engine reports the interval
\* next; the loop reads it and replaces its ticker when the interval differs from the
\* ticker's (the source compares newInterval with ticker.C)
EventLoopIterate(next) ==
    /\ pc["eventLoop"] = "iterate"
    /\ tox' = [tox EXCEPT !.interval = next]
    /\ held' = IF next # held["eventLoop"] THEN ("eventLoop" :> next) ELSE held
    /\ pc' = [pc EXCEPT !["eventLoop"] = "wait"]
    /\ last' = [last EXCEPT !.op = "iterate", !.iterations = 1]
    /\ UNCHANGED <<now, cadenceRest>>

\* part_001 383-384: c.tox.Iterate(), after which the engine reports the interval next
RunLoopIterate(next) ==
    /\ pc["run"] = "iterate"
    /\ tox' = [tox EXCEPT !.interval = next]
    /\ pc' = [pc EXCEPT !["run"] = "wait"]
    /\ last' = [last EXCEPT !.op = "iterate", !.iterations = 1]
    /\ UNCHANGED <<held, now, cadenceRest>>

NextCadence ==
    \/ EventLoopStart
    \/ RunLoopStart
    \/ \E g \in IterationLoops : TickerFires(g)
    \/ \E next \in Intervals : EventLoopIterate(next)
    \/ \E next \in Intervals : RunLoopIterate(next)

SpecCadence == InitCadence /\ [][NextCadence]_vars

(***************************************************************************)
(* C34: after every engine iteration the iteration loop reads the          *)
(* engine-reported interval again and waits that interval before the next  *)
(* iteration; when the engine reports a different interval than before,    *)
(* the next wait uses the new value.                                       *)
(***************************************************************************)
C34_WaitIsReportedInterval ==
    (last.op = "wait" /\ last.iterations > 0) => last.waited = tox.interval

(***************************************************************************)
(* Bootstrap at startup.  Client.Run of client.go calls c.bootstrap() and  *)
(* tests its error before it starts the FIFO manager; Client.Run of        *)
(* part_001 starts c.bootstrap() as a goroutine.  pc.bootstrap is the      *)
(* index of the node the loop is at, last.attempts the calls of            *)
(* c.tox.Bootstrap made, last.relays those of c.tox.AddTCPRelay.           *)
(***************************************************************************)
\* The configuration lists at most MaxNodes bootstrap nodes.
MaxNodes == 3

BootstrapNodeNames == {"node1", "node2", "node3"}

\* the lists of config.BootstrapNodes: without repetition, of any length and order
NodeLists ==
    UNION {{order \in [1..n -> BootstrapNodeNames] :
                \A i, j \in 1..n : order[i] = order[j] => i = j} : n \in 0..MaxNodes}

\* the value of pc.bootstrap after the loop has returned
BootstrapOver == MaxNodes + 2

InitBootstrap ==
    /\ friends = <<>>
    /\ friendsByID = <<>>
    /\ tox = [friends |-> <<>>]
    /\ pc = [run |-> "called", bootstrap |-> 0]
    /\ LifeRest
    /\ phase = "init"
    /\ fifos = <<>>
    /\ fs = <<>>
    /\ tasks = <<>>
    /\ saveFile = "none"
    /\ \E nodes \in NodeLists : config = [BootstrapNodes |-> <<>> \o nodes]
    /\ held = <<>>
    /\ locks = NoLocks
    /\ now = 0
    /\ \E client \in {"client.go", "part_001"} :
          last = [op |-> "none", err |-> FALSE, client |-> client, attempts |-> <<>>,
                  relays |-> <<>>]

bootstrapRest == <<friends, friendsByID, tox, mon, mu, running, shutdownClosed, ctxDone,
                   fmCtxDone, wg, fmwg, toxKilled, panicked, effects, phase, fifos, fs, tasks,
                   saveFile, config, held, locks, now>>

\* client.go 112: c.bootstrap() called by Run; part_001 359-363: go c.bootstrap(), and
\* Run goes on to its iteration loop
RunBootstraps ==
    /\ pc.run = "called"
    /\ pc' = [run |-> IF last.client = "client.go" THEN "bootstrap" ELSE "loop",
              bootstrap |-> 1]
    /\ UNCHANGED <<last, bootstrapRest>>

\* the loop body returning the error of c.tox.Bootstrap: the variant C35 must tell from
\* the code
BootstrapNode_ReturnOnError(ok, relayOK) ==
    /\ pc.bootstrap \in 1..Len(config.BootstrapNodes)
    /\ LET node == config.BootstrapNodes[pc.bootstrap]
       IN /\ last' = [last EXCEPT !.op = "Bootstrap",
                                  !.err = ~ok,
                                  !.attempts = Append(@, [ok |-> ok, node |-> node])]
          /\ pc' = [pc EXCEPT !.bootstrap = IF ok THEN @ + 1
                                            ELSE Len(config.BootstrapNodes) + 1]
    /\ UNCHANGED bootstrapRest

\* one round of the loop of Client.bootstrap: c.tox.Bootstrap for the node, its error
\* logged; client.go goes on to c.tox.AddTCPRelay when it succeeded, the error logged
BootstrapNode(ok, relayOK) ==
    /\ pc.bootstrap \in 1..Len(config.BootstrapNodes)
    /\ LET node == config.BootstrapNodes[pc.bootstrap]
       IN last' = [last EXCEPT !.op = "Bootstrap",
                               !.attempts = Append(@, [ok |-> ok, node |-> node]),
                               !.relays = IF ok /\ last.client = "client.go"
                                          THEN Append(@, [ok |-> relayOK, node |-> node])
                                          ELSE @]
    /\ pc' = [pc EXCEPT !.bootstrap = @ + 1]
    /\ UNCHANGED bootstrapRest

\* the end of the list: client.go 266 return nil, tested by Run in 112-114, which goes
\* on to start the FIFO manager; part_001 400, the goroutine ends
BootstrapReturns ==
    /\ pc.bootstrap = Len(config.BootstrapNodes) + 1
    /\ pc' = [run |-> IF last.client # "client.go" THEN pc.run
                      ELSE IF last.err THEN "failed" ELSE "start",
              bootstrap |-> BootstrapOver]
    /\ last' = [last EXCEPT !.op = "return"]
    /\ UNCHANGED bootstrapRest

NextBootstrap ==
    \/ RunBootstraps
    \/ \E ok, relayOK \in BOOLEAN : BootstrapNode(ok, relayOK)
    \/ BootstrapReturns

SpecBootstrap == InitBootstrap /\ [][NextBootstrap]_vars

(***************************************************************************)
(* C35: startup attempts a bootstrap against every configured node in list *)
(* order; a failure for one node does not prevent the attempts for the     *)
(* following nodes and never makes startup fail.                           *)
(***************************************************************************)
C35_EveryNodeAttempted ==
    /\ Len(last.attempts) <= Len(config.BootstrapNodes)
    /\ \A i \in 1..Len(last.attempts) : last.attempts[i].node = config.BootstrapNodes[i]
    /\ last.op = "return" => Len(last.attempts) = Len(config.BootstrapNodes)
    /\ ~last.err
    /\ pc.run # "failed"

\* Run of client.go goes on to start the FIFO manager after three attempts, the first of
\* which failed.
C35_Witness ==
    /\ pc.run = "start"
    /\ Len(last.attempts) = MaxNodes
    /\ ~last.attempts[1].ok
    /\ last.attempts[2].ok

(***************************************************************************)
(* C36: for every friend that is in the registry and whose pipes were      *)
(* created, the descriptors of its output pipes (text_out, file_out,       *)
(* status) stay in the descriptor table for as long as the friend is       *)
(* registered, whatever sequence of idle-cleanup sweeps and writes occurs; *)
(* an event for a registered friend is therefore never dropped with the    *)
(* error "FIFO not found" (writeFIFO returning before it opens the pipe).  *)
(***************************************************************************)
C36_OutputDescriptorsKept ==
    /\ phase \in {"constructed", "monitoring"} =>
           \A f \in DOMAIN friends : \A name \in {TextOut, FileOut, Status} :
               FriendFIFOPath(EncodeToString(friends[f].PublicKey), name) \in DOMAIN fifos
    /\ (last.op = "message" /\ last.event.friendID \in DOMAIN friends) =>
           Count(last.steps, "OpenFile") = 1

(***************************************************************************)
(* Cleanup sweeps and the polling of a friend's input pipe: the friend is  *)
(* loaded at startup, the clock advances, messages of the friend refresh   *)
(* its text_out descriptor, the cleanup ticker fires, and a writer leaves  *)
(* lines in the friend's text_in pipe.                                     *)
(***************************************************************************)
SweepTextInData == {<<"h", "i", "\n">>, <<"h", "i", "\n", " ", "y", "o", "\n">>}

NextSweep ==
    \/ NewClient(<<0>>, [h \in {0} |-> NoFault])
    \/ StartFIFOManager(NoFault, TRUE)
    \/ \E t \in Moments : Advance(t)
    \/ \E openOK \in BOOLEAN : FriendMessageEvent(0, <<"h", "i">>, "normal", openOK, TRUE)
    \/ CleanupSweep
    \/ \E data \in SweepTextInData : Poll(FriendPipe(Bob, TextIn), data, NoCut, AllOK)

SpecSweep == InitMissing /\ [][NextSweep]_vars

(***************************************************************************)
(* C37: a cleanup sweep changes only the descriptor table: it removes no   *)
(* pipe file or directory, stops no polling task, and changes neither the  *)
(* friend registry nor the descriptors it keeps; lines written to a        *)
(* friend's input pipe whose descriptor was dropped are still read and     *)
(* handled by the polling task.                                            *)
(***************************************************************************)
C37_SweepChangesTableOnly ==
    /\ [][last'.op = "cleanup" =>
              /\ UNCHANGED <<fs, tasks, mon, fmwg, fmCtxDone, friends, friendsByID, tox>>
              /\ \A p \in DOMAIN fifos' : p \in DOMAIN fifos /\ fifos'[p] = fifos[p]]_vars
    /\ [](last.op = "poll" /\ PipePath(last.pipe) \notin DOMAIN fifos =>
              /\ Args(last.handled) = NonEmpty(CompleteLines(last.line))
              /\ \A i \in DOMAIN last.handled :
                     /\ last.handled[i].call.fn = "SendFriendMessage"
                     /\ last.handled[i].call.message = last.handled[i].arg)

\* A sweep has dropped the descriptor of the friend's text_in pipe and kept that of its
\* text_out pipe; two lines written to text_in afterwards were sent as two messages.
C37_Witness ==
    /\ last.op = "poll"
    /\ last.pipe = FriendPipe(Bob, TextIn)
    /\ FriendFIFOPath(Bob, TextIn) \notin DOMAIN fifos
    /\ FriendFIFOPath(Bob, TextOut) \in DOMAIN fifos
    /\ FriendFIFOPath(Bob, TextIn) \in DOMAIN fs
    /\ Args(last.handled) = << <<"h", "i">>, <<"y", "o">> >>
    /\ \A i \in 1..2 : last.handled[i].call.ok

(***************************************************************************)
(* The flushes of the engine state file.  saveToxData is c.tox.GetSavedata *)
(* followed by os.WriteFile, which opens and truncates the file, writes    *)
(* and closes it; pc[g] is "get", "open" or "write" while goroutine g is   *)
(* in saveToxData.  The callers are the save loop (autoSave of part_001,   *)
(* saveLoop of client.go), the polling task of the global pipes through    *)
(* AcceptFriendRequest (part_001 only), and Shutdown.  tox.friends counts  *)
(* the friends of the engine, held[g] is the state goroutine g got from    *)
(* GetSavedata, saveFile the content of the file ("partial" while a        *)
(* WriteFile has truncated it and not yet written).                        *)
(***************************************************************************)
\* At most MaxAccepts friend requests are accepted.
MaxAccepts == 2

Flushers == {"save", "global", "shutdown"}

InitFlush ==
    /\ friends = <<>>
    /\ friendsByID = <<>>
    /\ tox = [friends |-> 0]
    /\ pc = [g \in Flushers |-> IF g = "shutdown" THEN "idle" ELSE "loop"]
    /\ LifeRest
    /\ phase = "monitoring"
    /\ fifos = <<>>
    /\ fs = <<>>
    /\ tasks = <<>>
    /\ saveFile = 0
    /\ config = "none"
    /\ held = [g \in Flushers |-> 0]
    /\ locks = NoLocks
    /\ now = 0
    /\ \E client \in {"client.go", "part_001"} : last = [op |-> "none", client |-> client]

flushRest == <<friends, friendsByID, mon, mu, running, shutdownClosed, fmCtxDone, wg, fmwg,
               toxKilled, panicked, effects, phase, fifos, fs, config, locks, now>>

\* part_001 413-414, client.go 233-234: case <-ticker.C: c.saveToxData()
SaveLoopTick ==
    /\ pc["save"] = "loop"
    /\ pc' = [pc EXCEPT !["save"] = "get"]
    /\ last' = [last EXCEPT !.op = "tick"]
    /\ UNCHANGED <<tox, ctxDone, tasks, saveFile, held, flushRest>>

\* case <-c.ctx.Done(): autoSave makes a final save and returns (part_001 409-412);
\* saveLoop returns (client.go 231-232)
SaveLoopDone ==
    /\ pc["save"] = "loop"
    /\ ctxDone
    /\ pc' = [pc EXCEPT !["save"] = IF last.client = "part_001" THEN "final" ELSE "done"]
    /\ last' = [last EXCEPT !.op = "done"]
    /\ UNCHANGED <<tox, ctxDone, tasks, saveFile, held, flushRest>>

\* a line of request_in is handled: AcceptFriendRequest adds the friend to the engine,
\* CreateFriendFIFOs starts its polling task (on fm.ctx), then c.saveToxData()
\* (part_001 520-547)
RequestAccepted ==
    /\ last.client = "part_001"
    /\ pc["global"] = "loop"
    /\ tox.friends < MaxAccepts
    /\ tox' = [tox EXCEPT !.friends = @ + 1]
    /\ tasks' = tasks @@ ((tox.friends + 1) :> 1)
    /\ pc' = [pc EXCEPT !["global"] = "get"]
    /\ last' = [last EXCEPT !.op = "accept"]
    /\ UNCHANGED <<ctxDone, saveFile, held, flushRest>>

\* monitorGlobalFIFOs finds its context cancelled and returns (fifo.go 252-254)
GlobalDone ==
    /\ pc["global"] = "loop"
    /\ ctxDone
    /\ pc' = [pc EXCEPT !["global"] = "done"]
    /\ last' = [last EXCEPT !.op = "done"]
    /\ UNCHANGED <<tox, ctxDone, tasks, saveFile, held, flushRest>>

\* Shutdown cancels the context (part_001 444-447, client.go 155-161)
ShutdownCancels ==
    /\ pc["shutdown"] = "idle"
    /\ pc' = [pc EXCEPT !["shutdown"] = "wait"]
    /\ ctxDone' = TRUE
    /\ last' = [last EXCEPT !.op = "cancel"]
    /\ UNCHANGED <<tox, tasks, saveFile, held, flushRest>>

\* part_001 449-452: c.wg.Wait() returns when autoSave and FIFOManager.Run have
\* returned, FIFOManager.Run when its polling tasks have, those of the friends included
\* (fifo.go 84, 170-174); then c.saveToxData().  client.go 163-164 saves without waiting.
ShutdownSaves ==
    /\ pc["shutdown"] = "wait"
    /\ last.client = "part_001" =>
           pc["save"] = "done" /\ pc["global"] = "done" /\ tasks = <<>>
    /\ pc' = [pc EXCEPT !["shutdown"] = "get"]
    /\ last' = [last EXCEPT !.op = "save"]
    /\ UNCHANGED <<tox, ctxDone, tasks, saveFile, held, flushRest>>

\* saveToxData: saveData := c.tox.GetSavedata()
GetSavedata(g) ==
    /\ pc[g] \in {"get", "final"}
    /\ held' = [held EXCEPT ![g] = tox.friends]
    /\ pc' = [pc EXCEPT ![g] = IF @ = "final" THEN "open_final" ELSE "open"]
    /\ last' = [last EXCEPT !.op = "GetSavedata"]
    /\ UNCHANGED <<tox, ctxDone, tasks, saveFile, flushRest>>

\* os.WriteFile opens the file with O_TRUNC
WriteFileOpens(g) ==
    /\ pc[g] \in {"open", "open_final"}
    /\ saveFile' = "partial"
    /\ pc' = [pc EXCEPT ![g] = IF @ = "open" THEN "write" ELSE "write_final"]
    /\ last' = [last EXCEPT !.op = "open"]
    /\ UNCHANGED <<tox, ctxDone, tasks, held, flushRest>>

\* os.WriteFile writes the data and closes the file; saveToxData returns to its caller
WriteFileWrites(g) ==
    /\ pc[g] \in {"write", "write_final"}
    /\ saveFile' = held[g]
    /\ pc' = [pc EXCEPT ![g] = IF g = "shutdown" \/ @ = "write_final" THEN "done" ELSE "loop"]
    /\ last' = [last EXCEPT !.op = "written"]
    /\ UNCHANGED <<tox, ctxDone, tasks, held, flushRest>>

NextFlush ==
    \/ SaveLoopTick
    \/ SaveLoopDone
    \/ RequestAccepted
    \/ GlobalDone
    \/ ShutdownCancels
    \/ ShutdownSaves
    \/ \E g \in Flushers : GetSavedata(g)
    \/ \E g \in Flushers : WriteFileOpens(g)
    \/ \E g \in Flushers : WriteFileWrites(g)

SpecFlush == InitFlush /\ [][NextFlush]_vars

\* goroutine g is in saveToxData
Flushing(g) == pc[g] \in {"get", "final", "open", "open_final", "write", "write_final"}

(***************************************************************************)
(* C38: at most one persistence flush of the engine state file is in       *)
(* progress at any time: the flushes triggered by the periodic save loop,  *)
(* by a request acceptance and by Shutdown never overlap.                  *)
(***************************************************************************)
C38_OneFlushAtATime ==
    \A g, h \in Flushers : Flushing(g) /\ Flushing(h) => g = h

(***************************************************************************)
(* Concurrent callers of Client.Run of part_001, with a caller of          *)
(* Client.Shutdown.  pc[r] is the place of caller r in Run: "idle", "lock" *)
(* (at c.mu.Lock()), "spawn", "loop", "defer", then "returned", or         *)
(* "refused" when Run returned the error "client is already running".  wg  *)
(* counts the goroutines the Run calls have started and that have not yet  *)
(* returned; they return once the context is cancelled.                    *)
(***************************************************************************)
\* The goroutines started by Run and still running are at most MaxWorkers.
MaxWorkers == 6

Runners == {"r1", "r2"}

InitRun ==
    /\ RegIdle
    /\ GateIdle
    /\ LifeRest
    /\ pc = [p \in Runners \cup {"sd"} |-> "idle"]

runRest == <<regVars, gateVars, mon, fmCtxDone, fmwg, toxKilled, effects>>

\* a goroutine calls c.Run(), for the first time or again after an earlier call returned
RunCalled(r) ==
    /\ ~panicked
    /\ pc[r] \in {"idle", "returned", "refused"}
    /\ pc' = [pc EXCEPT ![r] = "lock"]
    /\ UNCHANGED <<mu, running, shutdownClosed, ctxDone, wg, panicked, runRest>>

\* Run setting c.running without testing it: the variant C39 must tell from the code
RunChecks_Unguarded(r) ==
    /\ ~panicked
    /\ pc[r] = "lock"
    /\ mu = "free"
    /\ running' = TRUE
    /\ pc' = [pc EXCEPT ![r] = "spawn"]
    /\ UNCHANGED <<mu, shutdownClosed, ctxDone, wg, panicked, runRest>>

\* part_001 338-345: c.mu.Lock(); if c.running, unlock and return the error; else
\* c.running = true; c.mu.Unlock()
RunChecks(r) ==
    /\ ~panicked
    /\ pc[r] = "lock"
    /\ mu = "free"
    /\ IF running
       THEN pc' = [pc EXCEPT ![r] = "refused"] /\ UNCHANGED running
       ELSE pc' = [pc EXCEPT ![r] = "spawn"] /\ running' = TRUE
    /\ UNCHANGED <<mu, shutdownClosed, ctxDone, wg, panicked, runRest>>

\* part_001 352-371: the FIFO manager, bootstrap and autoSave are started
RunStarts(r) ==
    /\ ~panicked
    /\ pc[r] = "spawn"
    /\ wg + 3 <= MaxWorkers
    /\ wg' = wg + 3
    /\ pc' = [pc EXCEPT ![r] = "loop"]
    /\ UNCHANGED <<mu, running, shutdownClosed, ctxDone, panicked, runRest>>

\* part_001 379-382: the iteration loop returns on c.ctx.Done() or c.shutdown
RunLoopExits(r) ==
    /\ ~panicked
    /\ pc[r] = "loop"
    /\ ctxDone \/ shutdownClosed
    /\ pc' = [pc EXCEPT ![r] = "defer"]
    /\ UNCHANGED <<mu, running, shutdownClosed, ctxDone, wg, panicked, runRest>>

\* part_001 346-350, the deferred function: c.mu.Lock(); c.running = false; c.mu.Unlock()
RunResets(r) ==
    /\ ~panicked
    /\ pc[r] = "defer"
    /\ mu = "free"
    /\ running' = FALSE
    /\ pc' = [pc EXCEPT ![r] = "returned"]
    /\ UNCHANGED <<mu, shutdownClosed, ctxDone, wg, panicked, runRest>>

\* a goroutine started by Run finds the context cancelled and returns: c.wg.Done()
WorkerReturns ==
    /\ ~panicked
    /\ wg > 0
    /\ ctxDone
    /\ wg' = wg - 1
    /\ UNCHANGED <<pc, mu, running, shutdownClosed, ctxDone, panicked, runRest>>

\* part_001 431-436: c.mu.Lock(); if !c.running, return (the deferred Unlock runs)
ShutdownEnters ==
    /\ ~panicked
    /\ pc["sd"] = "idle"
    /\ mu = "free"
    /\ IF running
       THEN mu' = "sd" /\ pc' = [pc EXCEPT !["sd"] = "signal"]
       ELSE UNCHANGED <<mu, pc>>
    /\ UNCHANGED <<running, shutdownClosed, ctxDone, wg, panicked, runRest>>

\* part_001 443-447: close(c.shutdown), which panics on a closed channel; c.cancel()
ShutdownSignals ==
    /\ ~panicked
    /\ pc["sd"] = "signal"
    /\ IF shutdownClosed
       THEN panicked' = TRUE /\ UNCHANGED <<pc, shutdownClosed, ctxDone>>
       ELSE /\ shutdownClosed' = TRUE
            /\ ctxDone' = TRUE
            /\ pc' = [pc EXCEPT !["sd"] = "wait"]
            /\ UNCHANGED panicked
    /\ UNCHANGED <<mu, running, wg, runRest>>

\* part_001 449-461: c.wg.Wait(), the last save, c.tox.Kill(), and the deferred Unlock
ShutdownReturns ==
    /\ ~panicked
    /\ pc["sd"] = "wait"
    /\ wg = 0
    /\ mu' = "free"
    /\ pc' = [pc EXCEPT !["sd"] = "idle"]
    /\ UNCHANGED <<running, shutdownClosed, ctxDone, wg, panicked, runRest>>

NextRun ==
    \/ \E r \in Runners : RunCalled(r)
    \/ \E r \in Runners : RunChecks(r)
    \/ \E r \in Runners : RunStarts(r)
    \/ \E r \in Runners : RunLoopExits(r)
    \/ \E r \in Runners : RunResets(r)
    \/ WorkerReturns
    \/ ShutdownEnters
    \/ ShutdownSignals
    \/ ShutdownReturns

SpecRun == InitRun /\ [][NextRun]_vars

\* caller r is in a Run that has passed the test of c.running and has not yet returned
ActiveRun(r) == pc[r] \in {"spawn", "loop", "defer"}

(***************************************************************************)
(* C39: at most one Run is active per client: a Run call made while        *)
(* another Run is active returns the error "client is already running"     *)
(* without starting any loop, and the running flag is false again after    *)
(* the active Run has returned.                                            *)
(***************************************************************************)
C39_OneRunActive ==
    /\ [](\A r, s \in Runners : ActiveRun(r) /\ ActiveRun(s) => r = s)
    /\ [](running <=> \E r \in Runners : ActiveRun(r))
    /\ [][\A r \in Runners :
              (pc[r] = "lock" /\ pc'[r] # "lock") =>
                  IF \E s \in Runners \ {r} : ActiveRun(s)
                  THEN pc'[r] = "refused" /\ wg' = wg /\ running' = running
                  ELSE pc'[r] = "spawn"]_vars

\* The first Run has returned after a Shutdown and the flag is false again; the Run call
\* made meanwhile by the other caller was refused.
C39_Witness ==
    /\ pc["r1"] = "returned"
    /\ pc["r2"] = "refused"
    /\ pc["sd"] = "idle"
    /\ ~running
    /\ shutdownClosed
=============================================================================
